---- MODULE Spec2Model ----
(***************************************************************************)
(* FlowForge workflow executor (packages/server/src/core/executor.ts, the  *)
(* WorkflowExecutor class with buildDependencyGraph / detectCycles /       *)
(* executeTopologically / executeNodeWithRetry).                           *)
(*                                                                         *)
(* One run of executeWorkflow is modelled as a state machine.  The         *)
(* synchronous stretches of the JavaScript code (everything between two    *)
(* awaits that can suspend) are single actions; a capability's promise     *)
(* settling, a backoff timer firing, the resumption of a Promise.all       *)
(* callback and the resumption of executeTopologically after Promise.all   *)
(* are separate actions that interleave freely.                            *)
(*                                                                         *)
(* context.logs is kept as its subsequences per nodeId (the nodeId field   *)
(* of ExecutionLog, 'system' included): the order of the entries of one    *)
(* node is kept, the relative order of entries of different nodes is not.  *)
(***************************************************************************)
EXTENDS Integers, Sequences, FiniteSets, TLC

\* ------------------------------------------------------------------ bounds
\* graphs handed to the validation alone: node ids 1..MaxNodes, edge arrays
\* up to MaxGraphEdges long
MaxNodes == 3
MaxGraphEdges == 3
\* graphs that are run: edge arrays up to MaxEdges long, retry policies up to
\* MaxRetries retries
MaxEdges == 2
MaxRetries == 1
MaxBackoffMs == 2
\* executeWorkflow calls in progress side by side, and the objects their
\* caller may hand them as inputData
NumCalls == 2
CallerObjects == 2
\* templates of up to MaxPieces pieces
MaxPieces == 3

\* ------------------------------------------------------------ identifiers
Ids == 1..(MaxNodes + 1)
Calls == 1..NumCalls
\* the nodeId 'system' of the log entries written by executeWorkflow itself
System == MaxNodes + 2
LogIds == Ids \cup {System}

Range(s) == {s[i] : i \in DOMAIN s}

\* an absent map entry / an unset local
None == [kind |-> "none"]

\* ---------------------------------------------------------------- workflow
\* types/workflow.ts: nodes is an array of nodes with unique ids, edges an
\* array of {source, target}; type is what selects the capability.
NodeTypes == {"action", "condition"}

\* a type tag for which no executor is registered
Unregistered == "unregistered"

\* this.nodeExecutors.get(node.type) of node n is defined
HasExecutor(w, n) == w.types[n] \in NodeTypes

Edge(s, t) == [source |-> s, target |-> t]

EdgeKey(e) == e.source * (MaxNodes + 2) + e.target

\* every edge array up to max long, in every order, of edges that touch a
\* node of N; the other end may be a node of N or the id g, which is no node
\* (parallel edges and self-loops included)
EdgeArrays(N, g, max) ==
  LET E == {Edge(a, b) : a \in N, b \in N \cup {g}} \cup {Edge(g, b) : b \in N}
  IN UNION {[1..k -> E] : k \in 0..max}

\* the same, one array per multiset of edges
EdgeLists(N, g, max) ==
  {s \in EdgeArrays(N, g, max) :
     \A i \in 1..(Len(s) - 1) : EdgeKey(s[i]) <= EdgeKey(s[i + 1])}

Workflow(ns, ts, es) == [nodes |-> ns, types |-> ts, edges |-> es]

NodeIds(w) == Range(w.nodes)

\* workflow.nodes.find(n => n.id === nodeId) succeeds
FindNode(w, id) == id \in NodeIds(w)

\* ------------------------------------------------- buildDependencyGraph
\* inDegree: a Map, modelled by its keys in insertion order and its values
\* (0 where the key is absent: every read is `get(k) || 0`).
\* (mutant) the edge loop counting parallel edges once
RECURSIVE BuildEdgesOnce(_, _, _, _)
BuildEdgesOnce(edges, i, inDeg, adj) ==
  IF i > Len(edges) THEN [inDegree |-> inDeg, adjacency |-> adj]
  ELSE LET e == edges[i]
           seen == e.target \in Range(adj[e.source])
           adj2 == [adj EXCEPT ![e.source] = Append(adj[e.source], e.target)]
           keys2 == IF e.target \in Range(inDeg.keys) THEN inDeg.keys
                    ELSE Append(inDeg.keys, e.target)
           inDeg2 == [keys |-> keys2,
                      val |-> [inDeg.val EXCEPT
                                 ![e.target] = inDeg.val[e.target] + (IF seen THEN 0 ELSE 1)]]
       IN BuildEdgesOnce(edges, i + 1, inDeg2, adj2)

RECURSIVE BuildEdges(_, _, _, _)
BuildEdges(edges, i, inDeg, adj) ==
  IF i > Len(edges) THEN [inDegree |-> inDeg, adjacency |-> adj]
  ELSE LET e == edges[i]
           adj2 == [adj EXCEPT ![e.source] = Append(adj[e.source], e.target)]
           keys2 == IF e.target \in Range(inDeg.keys) THEN inDeg.keys
                    ELSE Append(inDeg.keys, e.target)
           inDeg2 == [keys |-> keys2,
                      val |-> [inDeg.val EXCEPT ![e.target] = inDeg.val[e.target] + 1]]
       IN BuildEdges(edges, i + 1, inDeg2, adj2)

BuildDependencyGraph(w) ==
  BuildEdges(w.edges, 1,
             [keys |-> w.nodes, val |-> [id \in Ids |-> 0]],
             [id \in Ids |-> <<>>])

\* ------------------------------------------------------------ detectCycles
\* the inner for loop over the outgoing edges of nodeId
RECURSIVE DetectEdges(_, _, _, _, _)
DetectEdges(edges, i, nodeId, wd, queue) ==
  IF i > Len(edges) THEN [wd |-> wd, queue |-> queue]
  ELSE IF edges[i].source # nodeId THEN DetectEdges(edges, i + 1, nodeId, wd, queue)
  ELSE LET t == edges[i].target
           wd2 == [wd EXCEPT ![t] = wd[t] - 1]
           q2 == IF wd2[t] = 0 THEN Append(queue, t) ELSE queue
       IN DetectEdges(edges, i + 1, nodeId, wd2, q2)

\* the while loop: returns the processed array
RECURSIVE DetectLoop(_, _, _, _)
DetectLoop(w, wd, queue, processed) ==
  IF Len(queue) = 0 THEN processed
  ELSE LET nodeId == Head(queue)
           processed2 == Append(processed, nodeId)
       IN IF ~FindNode(w, nodeId) THEN DetectLoop(w, wd, Tail(queue), processed2)
          ELSE LET r == DetectEdges(w.edges, 1, nodeId, wd, Tail(queue))
               IN DetectLoop(w, r.wd, r.queue, processed2)

\* (mutant) only the first node of in-degree 0 seeds the queue
ProcessedFirstRoot(w, inDegree) ==
  LET roots == SelectSeq(inDegree.keys, LAMBDA id : inDegree.val[id] = 0)
  IN DetectLoop(w, inDegree.val, IF Len(roots) = 0 THEN roots ELSE <<Head(roots)>>, <<>>)

Processed(w, inDegree) ==
  DetectLoop(w, inDegree.val,
             SelectSeq(inDegree.keys, LAMBDA id : inDegree.val[id] = 0), <<>>)

CycleDetected(w, inDegree) == Len(Processed(w, inDegree)) # Len(w.nodes)

\* the ids the error message names, in node order
Unprocessed(w, inDegree) ==
  LET p == Range(Processed(w, inDegree))
  IN SelectSeq(w.nodes, LAMBDA id : id \notin p)

\* DetectCycles: None when the check passes, else the error thrown
DetectCycles(w, inDegree) ==
  IF CycleDetected(w, inDegree)
  THEN [kind |-> "cycle", nodes |-> Unprocessed(w, inDegree)]
  ELSE None

\* ------------------------------------------------------ getDownstreamNodes
\* breadth-first walk of the adjacency lists: every id reachable from nodeId
\* by one or more edges
RECURSIVE DownstreamLoop(_, _, _, _)
DownstreamLoop(adj, queue, visited, downstream) ==
  IF Len(queue) = 0 THEN downstream
  ELSE LET current == Head(queue)
       IN IF current \in visited
          THEN DownstreamLoop(adj, Tail(queue), visited, downstream)
          ELSE DownstreamLoop(adj, Tail(queue) \o adj[current],
                              visited \cup {current},
                              downstream \cup Range(adj[current]))

\* (mutant) the walk that counts the node it starts from as downstream
GetDownstreamNodesInclusive(nodeId, adj) ==
  DownstreamLoop(adj, <<nodeId>>, {}, {nodeId})

GetDownstreamNodes(nodeId, adj) == DownstreamLoop(adj, <<nodeId>>, {}, {})

\* --------------------------------------------------- shouldContinueExecution
\* (mutant) every result but one with continue === false continues
ShouldContinueUnlessFalse(result) == ~(result.kind = "value" /\ ~result.continue)

\* results are objects: continue === true decides; the sentinel of a
\* tolerated failure has no continue field
ShouldContinueExecution(result) == result.kind = "value" /\ result.continue

\* ------------------------------------------------------------- safeSerialize
\* A capability returns undefined or an object, which may carry a member JSON
\* cannot represent (a function). JSON.stringify(undefined) is undefined and
\* JSON.parse(undefined) throws a SyntaxError; stringify omits a
\* function-valued member, so the round trip yields the object without it.
Undefined == [kind |-> "undefined"]

Serializable(v) == v # Undefined

SafeSerialize(v) == IF v.kind = "value" THEN [v EXCEPT !.fn = FALSE] ELSE v

\* -------------------------------------------------------------------- state
VARIABLES
  workflow,         \* the graph handed to executeWorkflow
  options,          \* ExecutionOptions
  outcomes,         \* per node and attempt, how the capability's call ends when
                    \* that is fixed beforehand; None when it is left open
  phase,            \* "start", "running", "returned", "rejected"
  error,            \* the rejection of Promise.all / of executeWorkflow
  workingInDegree,  \* executeTopologically: working copy of the in-degrees
  adjacency,        \* adjacency lists built by buildDependencyGraph
  executedNodes,    \* executeTopologically: executedNodes
  skippedNodes,     \* executeTopologically: skippedNodes
  currentLevel,     \* executeTopologically: currentLevel
  awaiting,         \* callbacks of the current Promise.all not yet resolved
  pc,               \* per node: where its callback / executeNodeWithRetry is
  attempt,          \* executeNodeWithRetry: attempt
  retries,          \* executeNodeWithRetry: retries (the attempt lastError is from)
  nodeResult,       \* value executeNodeWithRetry returned or threw (callback local)
  data,             \* context.data
  metrics,          \* metrics map
  logs,             \* context.logs, per nodeId
  entered,          \* history: calls of executeNodeWithRetry per node
  invoked,          \* history: calls of executor.execute per node
  levelNo,          \* history: number of the level being executed
  levelOf,          \* history: level in which a node was launched (0: never)
  delayed,          \* history: per node, the arguments of the calls of delay
  lateCalls,        \* per node, the timed-out attempts whose capability call is
                    \* still pending, and (history) those whose call has settled since
  calls,            \* per executeWorkflow call in progress side by side: its context
  dataObjects,      \* the heap: the objects serving as data maps
  logArrays,        \* the heap: the arrays serving as logs
  executions,       \* the execution records of the database
  request,          \* a request POST /api/workflows/:id/execute: where its
                    \* handler is, and the status of its response
  utilCall,         \* a call of an exported helper or built-in executor: its arguments
  utilResult        \* what that call returned

runVars == <<workflow, options, outcomes, phase, error, workingInDegree, adjacency,
             executedNodes, skippedNodes, currentLevel, awaiting, pc, attempt,
             retries, nodeResult, data, metrics, logs, entered, invoked,
             levelNo, levelOf, delayed, lateCalls>>

callVars == <<calls, dataObjects, logArrays>>

utilVars == <<utilCall, utilResult>>

apiVars == <<executions, request>>

vars == <<runVars, callVars, apiVars, utilVars>>

graphVars == <<workflow, options, outcomes>>

\* options.retryPolicy?.backoffMs || 1000
DefaultBackoffMs == 1000
BackoffMsOf(opts) ==
  IF opts.retryPolicy = None \/ opts.retryPolicy.backoffMs = 0
  THEN DefaultBackoffMs
  ELSE opts.retryPolicy.backoffMs

\* the argument of delay() after failed attempt a: backoffMs * (attempt + 1)
BackoffDelay(opts, a) == BackoffMsOf(opts) * (a + 1)

\* options.retryPolicy?.maxRetries || 0
MaxRetriesOf(opts) ==
  IF opts.retryPolicy = None THEN 0 ELSE opts.retryPolicy.maxRetries

Policy(m, b) == [kind |-> "policy", maxRetries |-> m, backoffMs |-> b]

OptionsWith(backoffs) ==
  [continueOnError : BOOLEAN,
   retryPolicy : {None} \cup {Policy(m, b) : m \in 1..MaxRetries, b \in backoffs}]

\* the options of the runs: one backoffMs, the delays being no part of what
\* the runs are checked for
OptionFamily == OptionsWith({MaxBackoffMs})

\* The workflows that are run: three nodes of any type, and edges among them
\* and the id Dangling, which is no node of the workflow.
RunNodes == <<1, 2, 3>>
Dangling == Len(RunNodes) + 1

GraphFamily ==
  {Workflow(RunNodes, ts, es) :
     ts \in [Range(RunNodes) -> NodeTypes], es \in EdgeLists(Range(RunNodes), Dangling, MaxEdges)}

LogEntry(level, message) == [level |-> level, message |-> message]

\* (mutant) addLog putting the entry at the head of the log
AddLogUnshift(lg, nodeId, level, message) ==
  [lg EXCEPT ![nodeId] = <<LogEntry(level, message)>> \o lg[nodeId]]

\* addLog
AddLog(lg, nodeId, level, message) ==
  [lg EXCEPT ![nodeId] = Append(lg[nodeId], LogEntry(level, message))]

\* a call of executeWorkflow not made yet
IdleCall == [pc |-> "idle", data |-> None, logs |-> None, stored |-> {},
             wrote |-> {}, pushed |-> {}]

\* an object without properties
EmptyObject == [id \in Ids |-> None]

\* the objects the caller holds and may hand to executeWorkflow as inputData
CallerHeap == [o \in 1..CallerObjects |-> EmptyObject]

InitRun ==
  /\ utilResult = None
  /\ executions = <<>>
  /\ request = [pc |-> "idle", status |-> 0, executionId |-> 0]
  /\ calls = [c \in Calls |-> IdleCall]
  /\ dataObjects = CallerHeap
  /\ logArrays = <<>>
  /\ phase = "start"
  /\ delayed = [id \in Ids |-> <<>>]
  /\ lateCalls = [id \in Ids |-> [pending |-> {}, settled |-> {}]]
  /\ error = None
  /\ workingInDegree = [id \in Ids |-> 0]
  /\ adjacency = [id \in Ids |-> <<>>]
  /\ executedNodes = {}
  /\ skippedNodes = {}
  /\ currentLevel = <<>>
  /\ awaiting = {}
  /\ pc = [id \in Ids |-> "idle"]
  /\ attempt = [id \in Ids |-> 0]
  /\ retries = [id \in Ids |-> 0]
  /\ nodeResult = [id \in Ids |-> None]
  /\ data = [id \in Ids |-> None]
  /\ metrics = [id \in Ids |-> None]
  /\ logs = [id \in LogIds |-> <<>>]
  /\ entered = [id \in Ids |-> 0]
  /\ invoked = [id \in Ids |-> 0]
  /\ levelNo = 0
  /\ levelOf = [id \in Ids |-> 0]

Init ==
  /\ utilCall = None
  /\ outcomes = None
  /\ workflow \in GraphFamily
  /\ options \in OptionFamily
  /\ InitRun

\* ----------------------------------------- executeTopologically: next level
\* (mutant) every target of a finished node joins the next level, whatever
\* its remaining in-degree and whether or not it is already there
RECURSIVE NextTargetsNaive(_, _, _, _, _)
NextTargetsNaive(targets, j, wd, nextLevel, settled) ==
  IF j > Len(targets) THEN [wd |-> wd, nextLevel |-> nextLevel]
  ELSE LET t == targets[j]
       IN IF t \in settled THEN NextTargetsNaive(targets, j + 1, wd, nextLevel, settled)
          ELSE NextTargetsNaive(targets, j + 1, [wd EXCEPT ![t] = wd[t] - 1],
                                Append(nextLevel, t), settled)

\* the inner for loop over the targets of one node of the level just run
RECURSIVE NextTargets(_, _, _, _, _)
NextTargets(targets, j, wd, nextLevel, settled) ==
  IF j > Len(targets) THEN [wd |-> wd, nextLevel |-> nextLevel]
  ELSE LET t == targets[j]
       IN IF t \in settled THEN NextTargets(targets, j + 1, wd, nextLevel, settled)
          ELSE LET wd2 == [wd EXCEPT ![t] = wd[t] - 1]
                   nl2 == IF wd2[t] = 0 /\ t \notin Range(nextLevel)
                          THEN Append(nextLevel, t) ELSE nextLevel
               IN NextTargets(targets, j + 1, wd2, nl2, settled)

\* the outer for loop over currentLevel; settled = executedNodes u skippedNodes
RECURSIVE NextLevelLoop(_, _, _, _, _, _)
NextLevelLoop(level, i, adj, wd, nextLevel, settled) ==
  IF i > Len(level) THEN [wd |-> wd, nextLevel |-> nextLevel]
  ELSE LET r == NextTargets(adj[level[i]], 1, wd, nextLevel, settled)
       IN NextLevelLoop(level, i + 1, adj, r.wd, r.nextLevel, settled)

\* (mutant) the next level computed without regard to skippedNodes
NextLevelOfUnexecuted(level, adj, wd, executed, skipped) ==
  NextLevelLoop(level, 1, adj, wd, <<>>, executed)

NextLevel(level, adj, wd, executed, skipped) ==
  NextLevelLoop(level, 1, adj, wd, <<>>, executed \cup skipped)

\* ------------------------------------------- executeTopologically: a level
\* the callbacks of Promise.all(currentLevel.map(...)) that get past the two
\* early returns and call executeNodeWithRetry
Launched(w, level, executed, skipped) ==
  {id \in Range(level) : id \notin executed /\ id \notin skipped /\ FindNode(w, id)}

\* how many callbacks of the level are for id
Occurrences(level, id) == Cardinality({i \in DOMAIN level : level[i] = id})

\* The synchronous part of one level: every callback runs up to its first
\* suspension, i.e. executeNodeWithRetry logs 'Executing node' and calls the
\* capability (attempt 0).  lg is the log to append to.  pc keeps one
\* position per node; entered and invoked count every callback.
LaunchLevel(level, executed, skipped, lg, no) ==
  LET L == Launched(workflow, level, executed, skipped)
  IN /\ currentLevel' = level
     /\ awaiting' = L
     /\ pc' = [id \in Ids |-> IF id \in L THEN "running" ELSE pc[id]]
     /\ attempt' = [id \in Ids |-> IF id \in L THEN 0 ELSE attempt[id]]
     /\ retries' = [id \in Ids |-> IF id \in L THEN 0 ELSE retries[id]]
     /\ nodeResult' = [id \in Ids |-> IF id \in L THEN None ELSE nodeResult[id]]
     /\ entered' = [id \in Ids |-> IF id \in L THEN entered[id] + Occurrences(level, id)
                                   ELSE entered[id]]
     /\ invoked' = [id \in Ids |-> IF id \in L THEN invoked[id] + Occurrences(level, id)
                                   ELSE invoked[id]]
     /\ levelOf' = [id \in Ids |-> IF id \in L THEN no ELSE levelOf[id]]
     /\ levelNo' = no
     /\ logs' = [id \in LogIds |->
                   IF id \in L THEN Append(lg[id], LogEntry("info", "executing"))
                   ELSE lg[id]]

\* executeTopologically returns and executeWorkflow logs and returns
Complete ==
  /\ phase' = "returned"
  /\ logs' = AddLog(logs, System, "info", "completed")
  /\ currentLevel' = <<>>
  /\ UNCHANGED <<awaiting, pc, attempt, retries, nodeResult, entered, invoked,
                 levelOf, levelNo>>

\* ------------------------------------------------------------ executeWorkflow
\* The call of executeWorkflow up to its first suspension: build the graph,
\* detect cycles, start the first level.
ExecuteWorkflow ==
  /\ phase = "start"
  /\ LET g == BuildDependencyGraph(workflow)
         err == DetectCycles(workflow, g.inDegree)
         level == SelectSeq(g.inDegree.keys, LAMBDA id : g.inDegree.val[id] = 0)
     IN IF err # None
        THEN /\ phase' = "rejected"
             /\ error' = err
             /\ logs' = AddLog(logs, System, "error", "failed")
             /\ UNCHANGED <<workingInDegree, adjacency, currentLevel, awaiting, pc,
                            attempt, retries, nodeResult, entered, invoked,
                            levelNo, levelOf>>
        ELSE /\ workingInDegree' = g.inDegree.val
             /\ adjacency' = g.adjacency
             /\ error' = None
             /\ IF Len(level) = 0
                THEN Complete
                ELSE /\ phase' = "running"
                     /\ LaunchLevel(level, executedNodes, skippedNodes, logs, 1)
  /\ UNCHANGED <<graphVars, callVars, apiVars, utilVars, lateCalls, delayed, executedNodes, skippedNodes, data, metrics>>

\* -------------------------------------------------------- executeNodeWithRetry
Result(n, c, f) ==
  [kind |-> "value", continue |-> c, attempt |-> attempt[n], fn |-> f]

Sentinel(err) == [kind |-> "sentinel", error |-> err, skipped |-> TRUE]

Metrics(status, r) == [kind |-> "metrics", status |-> status, retries |-> r]

\* (mutant) retries taken from the local `retries`, which the catch block sets
SuccessMetricsStale(n) == Metrics("success", retries[n])

\* the metrics entry of a successful attempt: retries is the attempt index
SuccessMetrics(n) == Metrics("success", attempt[n])

\* what a capability's result may say about continuing: only read for a
\* condition node
ContinueFlags(n) ==
  IF workflow.types[n] = "condition" THEN BOOLEAN ELSE {FALSE}

\* what the capability of node n may resolve with
ReturnValues(n) ==
  {Result(n, c, f) : c \in ContinueFlags(n), f \in BOOLEAN} \cup {Undefined}

\* (mutant) a write that replaces the data map by one holding the entry alone
WriteDataAlone(d, n, v) == [id \in Ids |-> IF id = n THEN v ELSE None]

\* context.data[node.id] = v
WriteData(d, n, v) == [d EXCEPT ![n] = v]

\* The rest of the try block after a result that safeSerialize accepts:
\* executeNodeWithRetry returns the result.
AttemptSucceeded(n, result) ==
  /\ pc[n] = "running"
  /\ data' = WriteData(data, n, SafeSerialize(result))
  /\ logs' = AddLog(logs, n, "info", "success")
  /\ metrics' = [metrics EXCEPT ![n] = SuccessMetrics(n)]
  /\ nodeResult' = [nodeResult EXCEPT ![n] = result]
  /\ pc' = [pc EXCEPT ![n] = "returned"]
  /\ UNCHANGED <<graphVars, callVars, apiVars, utilVars, lateCalls, delayed, phase, error, workingInDegree, adjacency, executedNodes,
                 skippedNodes, currentLevel, awaiting, attempt, retries, entered,
                 invoked, levelNo, levelOf>>

FailureCauses == {"error", "timeout", "serialize", "noexecutor"}

\* the error of attempt a of node n (a capability error, the timeout error,
\* the SyntaxError of safeSerialize or 'No executor found for node type')
Failure(n, a, cause) == [kind |-> "error", node |-> n, attempt |-> a, cause |-> cause]

\* (mutant) lastError keeps the error of the first failed attempt
LastErrorFirst(n, a, cause) == Failure(n, 0, cause)

\* lastError after the catch block of attempt a: the error just caught
LastError(n, a, cause) == Failure(n, a, cause)

\* The catch block and, when no attempt is left, the code after the loop.
\* lastError is read only right after it is set (the warn entry) and after
\* the loop, where it is the error of the last attempt: the state keeps
\* `retries`, the attempt it stems from.
AttemptFailed(n, cause) ==
  LET err == LastError(n, attempt[n], cause)
  IN /\ pc[n] = "running"
     /\ retries' = [retries EXCEPT ![n] = attempt[n]]
     /\ IF attempt[n] < MaxRetriesOf(options)
        THEN /\ logs' = AddLog(logs, n, "warn", "retrying")
             /\ delayed' = [delayed EXCEPT
                               ![n] = Append(@, BackoffDelay(options, attempt[n]))]
             /\ pc' = [pc EXCEPT ![n] = "backoff"]
             /\ UNCHANGED <<metrics, data, nodeResult, error>>
        ELSE /\ metrics' = [metrics EXCEPT ![n] = Metrics("failed", attempt[n])]
             /\ UNCHANGED delayed
             /\ IF options.continueOnError
                THEN /\ logs' = AddLog(logs, n, "error", "failed_continuing")
                     /\ data' = WriteData(data, n, Sentinel(err))
                     /\ nodeResult' = [nodeResult EXCEPT ![n] = Sentinel(err)]
                     /\ pc' = [pc EXCEPT ![n] = "returned"]
                     /\ UNCHANGED error
                ELSE /\ logs' = AddLog(logs, n, "error", "failed")
                     /\ nodeResult' = [nodeResult EXCEPT ![n] = err]
                     /\ pc' = [pc EXCEPT ![n] = "thrown"]
                     \* the callback rejects; Promise.all rejects with the
                     \* first rejection it sees
                     /\ error' = IF error = None /\ n \in awaiting /\ phase = "running"
                                 THEN err ELSE error
                     /\ UNCHANGED data
     /\ UNCHANGED <<graphVars, callVars, apiVars, utilVars, phase, workingInDegree, adjacency, executedNodes,
                    skippedNodes, currentLevel, awaiting, attempt, entered, invoked,
                    levelNo, levelOf>>

\* The capability's promise resolves before the timer: the try block stores
\* the serialised result, or safeSerialize throws into the catch block.
CapabilityReturns(n) ==
  /\ pc[n] = "running"
  /\ HasExecutor(workflow, n)
  /\ \E result \in ReturnValues(n) :
       IF Serializable(result)
       THEN AttemptSucceeded(n, result)
       ELSE AttemptFailed(n, "serialize") /\ UNCHANGED lateCalls

\* executeSingleNode rejects: the capability's promise rejects or, for a type
\* without executor, executeSingleNode itself throws
CapabilityThrows(n) ==
  /\ pc[n] = "running"
  /\ AttemptFailed(n, IF HasExecutor(workflow, n) THEN "error" ELSE "noexecutor")
  /\ UNCHANGED lateCalls

\* (mutant) an attempt that is not raced against a timer
TimerNeverFires(n) == FALSE /\ AttemptFailed(n, "timeout") /\ UNCHANGED lateCalls

\* createTimeout's timer wins the race; it cannot when executeSingleNode has
\* thrown at once, the rejection being handled before any timer can fire
AttemptTimesOut(n) ==
  /\ pc[n] = "running"
  /\ HasExecutor(workflow, n)
  /\ AttemptFailed(n, "timeout")
  /\ UNCHANGED lateCalls

\* the same step, which leaves the promise of executeSingleNode that lost the
\* race pending; such promises are followed in SpecPending alone
AttemptTimesOutPending(n) ==
  /\ pc[n] = "running"
  /\ HasExecutor(workflow, n)
  /\ AttemptFailed(n, "timeout")
  /\ lateCalls' = [lateCalls EXCEPT ![n].pending = @ \cup {attempt[n]}]

\* (mutant) the result of a capability that settles late is stored all the same
CapabilitySettlesLateStored(n) ==
  \E a \in lateCalls[n].pending :
    /\ lateCalls' = [lateCalls EXCEPT ![n].pending = @ \ {a},
                                      ![n].settled = @ \cup {a}]
    /\ \E result \in {r \in ReturnValues(n) : Serializable(r)} :
         /\ data' = WriteData(data, n, result)
         /\ logs' = AddLog(logs, n, "info", "success")
         /\ metrics' = [metrics EXCEPT ![n] = Metrics("success", a)]
    /\ UNCHANGED <<graphVars, callVars, apiVars, utilVars, delayed, phase, error, workingInDegree,
                   adjacency, executedNodes, skippedNodes, currentLevel, awaiting,
                   pc, attempt, retries, nodeResult, entered, invoked, levelNo,
                   levelOf>>

\* The promise of executeSingleNode settles after the timer has won the race
\* of its attempt: Promise.race has settled already, the value or the error
\* is dropped.
CapabilitySettlesLate(n) ==
  \E a \in lateCalls[n].pending :
    /\ lateCalls' = [lateCalls EXCEPT ![n].pending = @ \ {a},
                                      ![n].settled = @ \cup {a}]
    /\ UNCHANGED <<graphVars, callVars, apiVars, utilVars, delayed, phase, error, workingInDegree,
                   adjacency, executedNodes, skippedNodes, currentLevel, awaiting,
                   pc, attempt, retries, nodeResult, data, metrics, logs, entered,
                   invoked, levelNo, levelOf>>

\* delay(backoffMs * (attempt + 1)) elapses: the next iteration of the loop
BackoffElapses(n) ==
  /\ pc[n] = "backoff"
  /\ attempt' = [attempt EXCEPT ![n] = attempt[n] + 1]
  /\ logs' = AddLog(logs, n, "info", "executing_retry")
  /\ invoked' = [invoked EXCEPT ![n] = invoked[n] + 1]
  /\ pc' = [pc EXCEPT ![n] = "running"]
  /\ UNCHANGED <<graphVars, callVars, apiVars, utilVars, lateCalls, delayed, phase, error, workingInDegree, adjacency, executedNodes,
                 skippedNodes, currentLevel, awaiting, retries, nodeResult, data,
                 metrics, entered, levelNo, levelOf>>

\* ------------------------------------ executeTopologically: callback resumes
SkippedMetrics ==
  [kind |-> "metrics", status |-> "skipped", retries |-> 0, duration |-> 0]

\* (mutant) pruning that marks the direct successors only
PrunedDirect(n, result) ==
  IF workflow.types[n] = "condition" /\ ~ShouldContinueExecution(result)
  THEN Range(adjacency[n])
  ELSE {}

\* (mutant) pruning that spares a node with a predecessor outside the pruned set
PrunedExclusive(n, result) ==
  IF workflow.types[n] = "condition" /\ ~ShouldContinueExecution(result)
  THEN LET D == GetDownstreamNodes(n, adjacency)
       IN {d \in D : \A i \in DOMAIN workflow.edges :
                      workflow.edges[i].target = d
                        => workflow.edges[i].source \in D \cup {n}}
  ELSE {}

\* (mutant) pruning by the first callback of a level to resume only
PrunedByFirst(n, result) ==
  IF /\ workflow.types[n] = "condition" /\ ~ShouldContinueExecution(result)
     /\ Range(currentLevel) \cap executedNodes = {}
  THEN GetDownstreamNodes(n, adjacency)
  ELSE {}

\* the nodes a callback prunes once its node has returned nodeResult
Pruned(n, result) ==
  IF workflow.types[n] = "condition" /\ ~ShouldContinueExecution(result)
  THEN GetDownstreamNodes(n, adjacency)
  ELSE {}

\* The Promise.all callback of node n continues after
\* `await this.executeNodeWithRetry(...)`: mark executed, prune.
CallbackResumes(n) ==
  /\ pc[n] = "returned"
  /\ executedNodes' = executedNodes \cup {n}
  /\ LET P == Pruned(n, nodeResult[n])
         prunes == workflow.types[n] = "condition"
                   /\ ~ShouldContinueExecution(nodeResult[n])
     IN /\ skippedNodes' = skippedNodes \cup P
        /\ metrics' = [id \in Ids |-> IF id \in P THEN SkippedMetrics ELSE metrics[id]]
        /\ logs' = IF prunes THEN AddLog(logs, n, "info", "pruning") ELSE logs
  /\ pc' = [pc EXCEPT ![n] = "done"]
  /\ awaiting' = awaiting \ {n}
  /\ nodeResult' = [nodeResult EXCEPT ![n] = None]
  /\ UNCHANGED <<graphVars, callVars, apiVars, utilVars, lateCalls, delayed, phase, error, workingInDegree, adjacency, currentLevel,
                 attempt, retries, data, entered, invoked, levelNo, levelOf>>

\* (mutant) the level loop goes on as soon as one callback has resolved
LevelSettledAny == \E id \in Range(currentLevel) : id \notin awaiting

\* await Promise.all(...): every callback of the level has resolved
LevelSettled == awaiting = {}

\* Promise.all has resolved: executeTopologically computes the next level and
\* either starts it or returns.
AdvanceLevel ==
  /\ phase = "running"
  /\ LevelSettled
  /\ error = None
  /\ LET r == NextLevel(currentLevel, adjacency, workingInDegree,
                        executedNodes, skippedNodes)
     IN /\ workingInDegree' = r.wd
        /\ IF Len(r.nextLevel) = 0
           THEN Complete
           ELSE /\ phase' = "running"
                /\ LaunchLevel(r.nextLevel, executedNodes, skippedNodes, logs,
                               levelNo + 1)
  /\ UNCHANGED <<graphVars, callVars, apiVars, utilVars, lateCalls, delayed, error, adjacency, executedNodes, skippedNodes, data,
                 metrics>>

\* Promise.all has rejected: executeTopologically throws, the catch block of
\* executeWorkflow logs and rethrows.
Abort ==
  /\ phase = "running"
  /\ error # None
  /\ phase' = "rejected"
  /\ logs' = AddLog(logs, System, "error", "failed")
  /\ UNCHANGED <<graphVars, callVars, apiVars, utilVars, lateCalls, delayed, error, workingInDegree, adjacency, executedNodes,
                 skippedNodes, currentLevel, awaiting, pc, attempt, retries,
                 nodeResult, data, metrics, entered, invoked, levelNo, levelOf>>

Next ==
  \/ ExecuteWorkflow
  \/ \E n \in Ids : CapabilityReturns(n)
  \/ \E n \in Ids : CapabilityThrows(n)
  \/ \E n \in Ids : AttemptTimesOut(n)
  \/ \E n \in Ids : BackoffElapses(n)
  \/ \E n \in Ids : CallbackResumes(n)
  \/ AdvanceLevel
  \/ Abort

Spec == Init /\ [][Next]_vars

\* ------------------------------------------------------- validation alone
\* buildDependencyGraph and detectCycles as functions of the graph: every
\* edge array over the nodes 1..MaxNodes and one id that is no node.
ValidationFamily ==
  {Workflow([i \in 1..MaxNodes |-> i], [i \in 1..MaxNodes |-> "action"], es) :
     es \in EdgeArrays(1..MaxNodes, MaxNodes + 1, MaxGraphEdges)}

InitGraph ==
  /\ utilCall = None
  /\ outcomes = None
  /\ workflow \in ValidationFamily
  /\ options = [continueOnError |-> FALSE, retryPolicy |-> None]
  /\ InitRun

SpecGraph == InitGraph /\ [][ExecuteWorkflow]_vars

\* ------------------------------------------------------------ diamond merge
\* A -> B, A -> C, B -> D, C -> D with A, B, C, D = 1, 2, 3, 4
DiamondNodes == <<1, 2, 3, 4>>
DiamondEdges == <<Edge(1, 2), Edge(1, 3), Edge(2, 4), Edge(3, 4)>>

InitDiamond ==
  /\ utilCall = None
  /\ outcomes = None
  /\ workflow \in {Workflow(DiamondNodes, ts, DiamondEdges) :
                     ts \in [Range(DiamondNodes) -> NodeTypes]}
  /\ options \in OptionFamily
  /\ InitRun

SpecDiamond == InitDiamond /\ [][Next]_vars

\* the run together with the capabilities that outlive their attempt
NextPending ==
  \/ ExecuteWorkflow
  \/ \E n \in Ids : CapabilityReturns(n)
  \/ \E n \in Ids : CapabilityThrows(n)
  \/ \E n \in Ids : AttemptTimesOutPending(n)
  \/ \E n \in Ids : CapabilitySettlesLate(n)
  \/ \E n \in Ids : BackoffElapses(n)
  \/ \E n \in Ids : CallbackResumes(n)
  \/ AdvanceLevel
  \/ Abort

\* on the diamond, under every assignment of types and every option
SpecPending == InitDiamond /\ [][NextPending]_vars

\* ------------------------- index.ts: POST /api/workflows/:id/execute
\* HTTP status codes of the responses
Ok == 200
NotFound == 404
ServerError == 500

\* res.json(...) / res.status(code).json(...): the handler has responded
Respond(code) == request' = [request EXCEPT !.pc = "responded", !.status = code]

\* workflowService.getWorkflow: the workflow is found, or it is not (404), or
\* the query throws and the catch block responds
GetWorkflow ==
  /\ request.pc = "idle"
  /\ \/ request' = [request EXCEPT !.pc = "found"]
     \/ Respond(NotFound)
     \/ Respond(ServerError)
  /\ UNCHANGED <<runVars, callVars, utilVars, executions>>

\* WorkflowService.saveExecution: prisma.execution.create
CreateExecution(table, status) == Append(table, [status |-> status, logs |-> FALSE])

\* WorkflowService.updateExecution: only the members of data that are truthy
\* are written
UpdateRecord(table, id, updateData) ==
  [table EXCEPT ![id] = [status |-> IF updateData.status # "" THEN updateData.status
                                    ELSE @.status,
                         logs |-> IF updateData.logs THEN TRUE ELSE @.logs]]

\* await workflowService.saveExecution({status: 'running', ...}), or the
\* insert throws
SaveExecution ==
  /\ request.pc = "found"
  /\ \/ /\ executions' = CreateExecution(executions, "running")
        /\ request' = [request EXCEPT !.pc = "saved",
                                      !.executionId = Len(executions) + 1]
     \/ Respond(ServerError) /\ UNCHANGED executions
  /\ UNCHANGED <<runVars, callVars, utilVars>>

\* workflowExecutor.executeWorkflow(workflow, req.body.inputData) is called
HandlerExecutes == request.pc = "saved" /\ ExecuteWorkflow

\* executeWorkflow has returned: updateExecution with status 'completed' and
\* the response, or the update throws and the catch block responds
HandlerCompletes ==
  /\ request.pc = "saved"
  /\ phase = "returned"
  /\ \/ /\ executions' = UpdateRecord(executions, request.executionId,
                                      [status |-> "completed", logs |-> TRUE])
        /\ Respond(Ok)
     \/ Respond(ServerError) /\ UNCHANGED executions
  /\ UNCHANGED <<runVars, callVars, utilVars>>

\* executeWorkflow has rejected: the catch block of the handler responds
HandlerCatches ==
  /\ request.pc = "saved"
  /\ phase = "rejected"
  /\ Respond(ServerError)
  /\ UNCHANGED <<runVars, callVars, utilVars, executions>>

\* the request carries no options: executeWorkflow runs with options = {}
InitEndpoint ==
  /\ utilCall = None
  /\ outcomes = None
  /\ workflow \in GraphFamily
  /\ options = [continueOnError |-> FALSE, retryPolicy |-> None]
  /\ InitRun

NextEndpoint ==
  \/ GetWorkflow
  \/ SaveExecution
  \/ HandlerExecutes
  \/ \E n \in Ids : CapabilityReturns(n)
  \/ \E n \in Ids : CapabilityThrows(n)
  \/ \E n \in Ids : AttemptTimesOut(n)
  \/ \E n \in Ids : CallbackResumes(n)
  \/ AdvanceLevel
  \/ Abort
  \/ HandlerCompletes
  \/ HandlerCatches

SpecEndpoint == InitEndpoint /\ [][NextEndpoint]_vars

\* ------------------------------------------- capabilities with fixed outcomes
\* How a call of a capability ends: it returns a result, with or without
\* continue = true, or it throws.
Returns(c) == [kind |-> "return", continue |-> c]
Throws == [kind |-> "throw"]

\* what the calls of the capability of a node of type t may be fixed to, one
\* outcome per attempt 0..m: an attempt is made only when the attempts before
\* it have failed, the outcome of an attempt never made is Returns(FALSE)
RECURSIVE Scripts(_, _)
Scripts(t, m) ==
  LET returns == {<<Returns(c)>> : c \in IF t = "condition" THEN BOOLEAN ELSE {FALSE}}
      padded == {<<r[1]>> \o [i \in 1..m |-> Returns(FALSE)] : r \in returns}
  IN IF m = 0 THEN returns \cup {<<Throws>>}
     ELSE padded \cup {<<Throws>> \o rest : rest \in Scripts(t, m - 1)}

OutcomeFamily(w, opts) ==
  {o \in [NodeIds(w) -> UNION {Scripts(t, MaxRetriesOf(opts)) : t \in NodeTypes}] :
     \A n \in NodeIds(w) : o[n] \in Scripts(w.types[n], MaxRetriesOf(opts))}

\* the call of executeSingleNode of the running attempt of n ends as fixed
CapabilityEnds(n) ==
  /\ outcomes # None
  /\ n \in DOMAIN outcomes
  /\ pc[n] = "running"
  /\ LET o == outcomes[n][attempt[n] + 1]
     IN IF o.kind = "return"
        THEN AttemptSucceeded(n, Result(n, o.continue, FALSE))
        ELSE AttemptFailed(n, "error") /\ UNCHANGED lateCalls

InitOrder ==
  /\ utilCall = None
  /\ workflow \in {Workflow(DiamondNodes, ts, DiamondEdges) :
                     ts \in [Range(DiamondNodes) -> NodeTypes]}
  /\ options \in OptionFamily
  /\ outcomes \in OutcomeFamily(workflow, options)
  /\ InitRun

\* the run in which the nodes of a level end in any order, each as fixed
NextOrder ==
  \/ ExecuteWorkflow
  \/ \E n \in Ids : CapabilityEnds(n)
  \/ \E n \in Ids : BackoffElapses(n)
  \/ \E n \in Ids : CallbackResumes(n)
  \/ AdvanceLevel
  \/ Abort

SpecOrder == InitOrder /\ [][NextOrder]_vars

\* ------------------------------------------------ types without executor
\* three nodes of which at least one has a type tag without executor, and at
\* most one edge
TypesFamily ==
  {Workflow(RunNodes, ts, es) :
     ts \in {t \in [Range(RunNodes) -> NodeTypes \cup {Unregistered}] :
               \E n \in Range(RunNodes) : t[n] = Unregistered},
     es \in EdgeLists(Range(RunNodes), Dangling, 1)}

InitTypes ==
  /\ utilCall = None
  /\ outcomes = None
  /\ workflow \in TypesFamily
  /\ options \in OptionFamily
  /\ InitRun

SpecTypes == InitTypes /\ [][Next]_vars

\* ------------------------------------------------------------ retry delays
\* three action nodes without edges, under every retry policy of up to
\* MaxRetries + 1 retries and a backoffMs of 0..MaxBackoffMs
BackoffFamily ==
  [continueOnError : BOOLEAN,
   retryPolicy : {Policy(m, b) : m \in 1..(MaxRetries + 1), b \in 0..MaxBackoffMs}]

InitBackoff ==
  /\ utilCall = None
  /\ outcomes = None
  /\ workflow = Workflow(RunNodes, [id \in Range(RunNodes) |-> "action"], <<>>)
  /\ options \in BackoffFamily
  /\ InitRun

SpecBackoff == InitBackoff /\ [][Next]_vars

\* ------------------------------------------------- calls side by side
\* Several calls of executeWorkflow on one WorkflowExecutor, each a run of
\* three action nodes without edges; of each run only what it does to the
\* heap is kept: the context it builds and its writes through context.data
\* and context.logs.
CallWorkflow == Workflow(RunNodes, [id \in Range(RunNodes) |-> "action"], <<>>)

\* the inputData argument left out
Omitted == 0

\* `data: inputData` of the context, inputData defaulting to a new object
\* when the argument is omitted: the object context.data refers to
ContextDataRef(inputData, heap) ==
  IF inputData = Omitted THEN Len(heap) + 1 ELSE inputData

\* executeWorkflow builds its context: `data: inputData, logs: []`
StartCall(c, inputData) ==
  /\ calls[c].pc = "idle"
  /\ LET ref == ContextDataRef(inputData, dataObjects)
     IN /\ dataObjects' = IF ref \in DOMAIN dataObjects THEN dataObjects
                          ELSE Append(dataObjects, EmptyObject)
        /\ logArrays' = Append(logArrays, <<>>)
        /\ calls' = [calls EXCEPT ![c] = [IdleCall EXCEPT !.pc = "running",
                                                          !.data = ref,
                                                          !.logs = Len(logArrays) + 1]]
  /\ UNCHANGED <<runVars, apiVars, utilVars>>

\* an attempt of node n succeeds in call c:
\* context.data[node.id] = ..., addLog(context, node.id, ...)
NodeStores(c, n) ==
  /\ calls[c].pc = "running"
  /\ n \notin calls[c].stored
  /\ dataObjects' = [dataObjects EXCEPT ![calls[c].data] = WriteData(@, n, [kind |-> "value", call |-> c])]
  /\ logArrays' = [logArrays EXCEPT ![calls[c].logs] = Append(@, <<c, n>>)]
  /\ calls' = [calls EXCEPT ![c].stored = @ \cup {n},
                            ![c].wrote = @ \cup {calls[c].data},
                            ![c].pushed = @ \cup {calls[c].logs}]
  /\ UNCHANGED <<runVars, apiVars, utilVars>>

\* every node has been executed: executeWorkflow returns its context
CallReturns(c) ==
  /\ calls[c].pc = "running"
  /\ calls[c].stored = NodeIds(workflow)
  /\ calls' = [calls EXCEPT ![c].pc = "returned"]
  /\ UNCHANGED <<runVars, apiVars, utilVars, dataObjects, logArrays>>

NextCalls ==
  \/ \E c \in Calls : \E o \in DOMAIN CallerHeap \cup {Omitted} : StartCall(c, o)
  \/ \E c \in Calls : \E n \in NodeIds(workflow) : NodeStores(c, n)
  \/ \E c \in Calls : CallReturns(c)

InitCalls ==
  /\ utilCall = None
  /\ outcomes = None
  /\ workflow = CallWorkflow
  /\ options = [continueOnError |-> FALSE, retryPolicy |-> None]
  /\ InitRun

SpecCalls == InitCalls /\ [][NextCalls]_vars

\* ------------------------------------------------------------- scheduling
\* What the event loop guarantees once executeWorkflow has been called,
\* whatever the capabilities do: a timer that was set fires, a settled
\* promise's continuation runs.  Nothing is assumed about a capability's
\* promise ever settling.
EventLoop ==
  \/ \E n \in Ids : AttemptTimesOut(n)
  \/ \E n \in Ids : BackoffElapses(n)
  \/ \E n \in Ids : CallbackResumes(n)
  \/ AdvanceLevel
  \/ Abort

FairSpec == Spec /\ WF_vars(EventLoop)

FairSpecDiamond == SpecDiamond /\ WF_vars(EventLoop)

\* ------------------------------------------- utils/variable-utils.ts
\* JavaScript values as far as the resolver tells them apart: undefined,
\* strings, booleans, and objects (a function from property names to values).
\* Reading a property of undefined throws a TypeError.
JsUndefined == [t |-> "undefined"]
JsString(str) == [t |-> "string", s |-> str]
JsBoolean(b) == [t |-> "boolean", b |-> b]
JsObject(fields) == [t |-> "object", fields |-> fields]
JsTypeError == [t |-> "TypeError"]

\* the property name under which a node's result is stored: its id
KeyOf(id) == ToString(id)

\* the message of an Error, a string that is never empty for the errors of
\* the engine
MessageOf(err) == JsString(err.cause)

\* what context.data holds under one key
JsOf(v) ==
  IF v.kind = "sentinel"
  THEN JsObject([k \in {"error", "skipped"} |->
                   IF k = "error" THEN MessageOf(v.error) ELSE JsBoolean(v.skipped)])
  ELSE IF v.kind = "value"
  THEN JsObject([k \in {"continue"} |-> JsBoolean(v.continue)])
  ELSE JsUndefined

\* context.data as an object
ContextData(d) ==
  JsObject([k \in {KeyOf(id) : id \in {i \in DOMAIN d : d[i] # None}} |->
              JsOf(d[CHOOSE id \in DOMAIN d : KeyOf(id) = k])])

\* current[key]
Prop(v, key) ==
  IF v.t = "undefined" THEN JsTypeError
  ELSE IF v.t = "object" /\ key \in DOMAIN v.fields THEN v.fields[key]
  ELSE JsUndefined

\* truthiness
Truthy(v) ==
  IF v.t = "undefined" THEN FALSE
  ELSE IF v.t = "string" THEN v.s # ""
  ELSE IF v.t = "boolean" THEN v.b
  ELSE TRUE

\* (mutant) the reduce step without the `current &&` guard
RECURSIVE GetNestedValueUnguarded(_, _)
GetNestedValueUnguarded(obj, path) ==
  IF path = <<>> \/ obj = JsTypeError THEN obj
  ELSE GetNestedValueUnguarded(Prop(obj, Head(path)), Tail(path))

\* path.split('.').reduce(...): a falsy current yields undefined
RECURSIVE GetNestedValue(_, _)
GetNestedValue(obj, path) ==
  IF path = <<>> THEN obj
  ELSE GetNestedValue(IF Truthy(obj) THEN Prop(obj, Head(path)) ELSE JsUndefined,
                      Tail(path))

\* String(value)
ToStr(v) ==
  IF v.t = "string" THEN v.s
  ELSE IF v.t = "boolean" THEN (IF v.b THEN "true" ELSE "false")
  ELSE IF v.t = "object" THEN "[object Object]"
  ELSE v.t

\* the text replaceVariables puts in the place of ${path}:
\* String(getNestedValue(contextData, varName) || '')
ResolveVariable(path, contextData) ==
  LET value == GetNestedValue(contextData, path)
  IN IF value = JsTypeError THEN JsTypeError
     ELSE JsString(ToStr(IF Truthy(value) THEN value ELSE JsString("")))

\* ---- replaceVariables
\* Strings are strings of characters: Len, SubSeq and \o act on them.

\* s.indexOf(sub, i) with positions counted from 1; 0 when sub does not occur
RECURSIVE IndexFrom(_, _, _)
IndexFrom(s, sub, i) ==
  IF i + Len(sub) - 1 > Len(s) THEN 0
  ELSE IF SubSeq(s, i, i + Len(sub) - 1) = sub THEN i
  ELSE IndexFrom(s, sub, i + 1)

IndexOf(s, sub) == IndexFrom(s, sub, 1)

NoMatch == [start |-> 0, end |-> 0]

\* the leftmost match of /\${([^}]+)}/ in s that starts at position i or
\* later: "${", one or more characters other than "}", then "}"
RECURSIVE NextMatch(_, _)
NextMatch(s, i) ==
  LET open == IndexFrom(s, "${", i)
      close == IndexFrom(s, "}", open + 2)
  IN IF open = 0 \/ close = 0 THEN NoMatch
     ELSE IF close = open + 2 THEN NextMatch(s, open + 1)
     ELSE [start |-> open, end |-> close]

\* template.match(/\${([^}]+)}/g) || []
RECURSIVE MatchAll(_, _)
MatchAll(s, i) ==
  LET m == NextMatch(s, i)
  IN IF m = NoMatch THEN <<>>
     ELSE <<SubSeq(s, m.start, m.end)>> \o MatchAll(s, m.end + 1)

\* variable.slice(2, -1)
VarName(variable) == SubSeq(variable, 3, Len(variable) - 1)

\* str.split('.')
RECURSIVE Split(_)
Split(str) ==
  LET d == IndexOf(str, ".")
  IN IF d = 0 THEN <<str>>
     ELSE <<SubSeq(str, 1, d - 1)>> \o Split(SubSeq(str, d + 1, Len(str)))

\* the replacement string of String.prototype.replace with its patterns
\* expanded: $$ inserts "$", $& the match, $` and $' the text before and
\* after the match
RECURSIVE ExpandReplacement(_, _, _, _)
ExpandReplacement(r, matched, before, after) ==
  IF Len(r) < 2 THEN r
  ELSE LET two == SubSeq(r, 1, 2)
           rest == ExpandReplacement(SubSeq(r, 3, Len(r)), matched, before, after)
       IN IF two = "$$" THEN "$" \o rest
          ELSE IF two = "$&" THEN matched \o rest
          ELSE IF two = "$`" THEN before \o rest
          ELSE IF two = "$'" THEN after \o rest
          ELSE SubSeq(r, 1, 1)
                 \o ExpandReplacement(SubSeq(r, 2, Len(r)), matched, before, after)

\* result.replace(variable, str) with a string pattern: the first occurrence
ReplaceFirst(result, variable, str) ==
  LET i == IndexOf(result, variable)
      before == SubSeq(result, 1, i - 1)
      after == SubSeq(result, i + Len(variable), Len(result))
  IN IF i = 0 THEN result
     ELSE before \o ExpandReplacement(str, variable, before, after) \o after

\* the for loop of replaceVariables
RECURSIVE ReplaceLoop(_, _, _)
ReplaceLoop(result, variables, contextData) ==
  IF variables = <<>> THEN result
  ELSE LET variable == Head(variables)
           value == ResolveVariable(Split(VarName(variable)), contextData)
       IN ReplaceLoop(ReplaceFirst(result, variable, value.s), Tail(variables),
                      contextData)

ReplaceVariables(template, contextData) ==
  ReplaceLoop(template, MatchAll(template, 1), contextData)

\* The templates: up to MaxPieces pieces put one after the other.
Pieces == {"Title: ", "${a}", "${b}", "${a.b}", "${", "}"}

RECURSIVE Join(_)
Join(seq) == IF seq = <<>> THEN "" ELSE Head(seq) \o Join(Tail(seq))

Templates == {Join(seq) : seq \in UNION {[1..k -> Pieces] : k \in 1..MaxPieces}}

\* The values under the names a and b of the data: a string, a boolean or an
\* object with a property b, or nothing.
Scalars == {JsString("Hi"), JsString(""), JsString("${b}"), JsString("$&"),
            JsString("US$$"), JsBoolean(TRUE), JsBoolean(FALSE)}

DataOf(a, b) ==
  JsObject([k \in {n \in {"a", "b"} : (IF n = "a" THEN a ELSE b) # JsUndefined} |->
              IF k = "a" THEN a ELSE b])

DataFamily ==
  {DataOf(a, b) :
     a \in Scalars \cup {JsUndefined}
             \cup {JsObject([k \in {"b"} |-> v]) : v \in Scalars},
     b \in {JsUndefined, JsString("Yo")}}

\* a call replaceVariables(template, contextData)
ReplaceVariablesCall ==
  /\ utilCall # None /\ utilCall.fn = "replaceVariables"
  /\ utilResult = None
  /\ utilResult' = JsString(ReplaceVariables(utilCall.template, utilCall.contextData))
  /\ UNCHANGED <<runVars, callVars, apiVars, utilCall>>

\* ---- ai/ollama-node.ts: the variable replacement of OllamaNodeExecutor.execute
\* the order of the properties of the objects of the data
PropertyOrder == <<"a", "b">>

OwnKeys(v) == SelectSeq(PropertyOrder, LAMBDA k : k \in DOMAIN v.fields)

RECURSIVE Indent(_)
Indent(depth) == IF depth = 0 THEN "" ELSE "  " \o Indent(depth - 1)

\* JSON.stringify(value, null, 2); the strings of the data hold no character
\* that JSON escapes
RECURSIVE Stringify(_, _)
RECURSIVE Members(_, _, _)
Members(v, keys, depth) ==
  LET k == Head(keys)
      member == Indent(depth) \o "\"" \o k \o "\": " \o Stringify(v.fields[k], depth)
  IN IF Len(keys) = 1 THEN member
     ELSE member \o ",\n" \o Members(v, Tail(keys), depth)

Stringify(v, depth) ==
  IF v.t = "string" THEN "\"" \o v.s \o "\""
  ELSE IF v.t = "boolean" THEN ToStr(v)
  ELSE IF OwnKeys(v) = <<>> THEN "{}"
  ELSE "{\n" \o Members(v, OwnKeys(v), depth + 1) \o "\n" \o Indent(depth) \o "}"

\* the replacement chosen for a value (lines 29-37)
Replacement(value) ==
  IF value = JsUndefined THEN ""
  ELSE IF value.t = "object" THEN Stringify(value, 0)
  ELSE ToStr(value)

\* str.split(separator).join(replacement): every occurrence, left to right
RECURSIVE SplitJoin(_, _, _)
SplitJoin(str, separator, replacement) ==
  LET i == IndexOf(str, separator)
  IN IF i = 0 THEN str
     ELSE SubSeq(str, 1, i - 1) \o replacement
            \o SplitJoin(SubSeq(str, i + Len(separator), Len(str)), separator,
                         replacement)

\* the for loop over the variables of the prompt
RECURSIVE ProcessLoop(_, _, _)
ProcessLoop(processedPrompt, variables, contextData) ==
  IF variables = <<>> THEN processedPrompt
  ELSE LET variable == Head(variables)
           value == GetNestedValue(contextData, Split(VarName(variable)))
       IN ProcessLoop(SplitJoin(processedPrompt, variable, Replacement(value)),
                      Tail(variables), contextData)

ProcessedPrompt(prompt, contextData) ==
  ProcessLoop(prompt, MatchAll(prompt, 1), contextData)

\* OllamaNodeExecutor.execute computes the prompt it sends
OllamaPrompt ==
  /\ utilCall # None /\ utilCall.fn = "ollama"
  /\ utilResult = None
  /\ utilResult' = JsString(ProcessedPrompt(utilCall.template, utilCall.contextData))
  /\ UNCHANGED <<runVars, callVars, apiVars, utilCall>>

\* ---- core/executor.ts: the built-in condition executor
\* a || b
JsOr(a, b) == IF Truthy(a) THEN a ELSE b

\* execute(context, nodeData) of the executor registered for 'condition'
ConditionExecute(contextData, nodeData) ==
  LET condition == JsOr(nodeData.config.condition, JsString("true"))
      conditionData == JsOr(nodeData.inputs, contextData)
      result == IF condition = JsString("true") THEN TRUE
                ELSE IF condition = JsString("false") THEN FALSE
                ELSE Truthy(conditionData)
  IN [condition |-> condition, result |-> JsBoolean(result),
      continue |-> JsBoolean(result)]

\* the node data of condition nodes: the expression and the inputs, each of
\* which may be missing
Conditions == {JsUndefined, JsString(""), JsString("true"), JsString("false"),
               JsString("Title: ")}

ConditionNodeData ==
  [config : [condition : Conditions],
   inputs : Scalars \cup {JsUndefined, JsObject([k \in {"b"} |-> JsString("Hi")])}]

\* a call of the condition executor
ConditionCall ==
  /\ utilCall # None /\ utilCall.fn = "condition"
  /\ utilResult = None
  /\ utilResult' = ConditionExecute(utilCall.contextData, utilCall.nodeData)
  /\ UNCHANGED <<runVars, callVars, apiVars, utilCall>>

InitCondition ==
  /\ utilCall \in [fn : {"condition"}, nodeData : ConditionNodeData,
                   contextData : DataFamily]
  /\ outcomes = None
  /\ workflow = CallWorkflow
  /\ options = [continueOnError |-> FALSE, retryPolicy |-> None]
  /\ InitRun

SpecCondition == InitCondition /\ [][ConditionCall]_vars

InitTemplate ==
  /\ utilCall \in [fn : {"replaceVariables", "ollama"}, template : Templates,
                   contextData : DataFamily]
  /\ outcomes = None
  /\ workflow = CallWorkflow
  /\ options = [continueOnError |-> FALSE, retryPolicy |-> None]
  /\ InitRun

NextTemplate ==
  \/ ReplaceVariablesCall
  \/ OllamaPrompt

SpecTemplate == InitTemplate /\ [][NextTemplate]_vars

\* ------------------------------------------------- graph notions for claims
\* (defined from the edges alone, independently of the executor's bookkeeping)
EdgeRel(w) ==
  {<<w.edges[i].source, w.edges[i].target>> : i \in DOMAIN w.edges}

\* the edges between two nodes of the workflow
NodeEdgeRel(w) == {p \in EdgeRel(w) : p[1] \in NodeIds(w) /\ p[2] \in NodeIds(w)}

Compose(R) == R \cup {<<x[1][1], x[2][2]>> : x \in {y \in R \X R : y[1][2] = y[2][1]}}

RECURSIVE TransitiveClosure(_)
TransitiveClosure(R) == IF Compose(R) = R THEN R ELSE TransitiveClosure(Compose(R))

\* every edge references existing nodes
ValidEdges(w) == EdgeRel(w) = NodeEdgeRel(w)

\* the nodes that lie on a directed cycle of nodes
OnCycle(w) == {n \in NodeIds(w) : <<n, n>> \in TransitiveClosure(NodeEdgeRel(w))}

HasCycle(w) == OnCycle(w) # {}

\* the nodes reachable from n by one or more edges
Reachable(w, n) == {m \in NodeIds(w) : <<n, m>> \in TransitiveClosure(NodeEdgeRel(w))}

\* the nodes on a cycle or reachable from one
CycleOrDownstream(w) == OnCycle(w) \cup UNION {Reachable(w, n) : n \in OnCycle(w)}

\* the direct predecessors of n
Preds(w, n) == {p[1] : p \in {q \in EdgeRel(w) : q[2] = n}}

WellFormed(w) == ValidEdges(w) /\ ~HasCycle(w)

\* the nodes that are the target of an edge whose source is no node, and the
\* nodes reachable from them
DanglingDownstream(w) ==
  LET T == {p[2] : p \in {q \in EdgeRel(w) : q[1] \notin NodeIds(w)}} \cap NodeIds(w)
  IN T \cup UNION {Reachable(w, n) : n \in T}

CycleError == phase = "rejected" /\ error.kind = "cycle"

\* the nodes without a predecessor
Roots(w) == {n \in NodeIds(w) : Preds(w, n) = {}}

\* the nodes reachable from c only through c: reachable from c, and on no
\* path from a root that avoids c
OnlyThrough(w, c) ==
  LET R == TransitiveClosure({p \in NodeEdgeRel(w) : p[1] # c /\ p[2] # c})
      free == Roots(w) \ {c}
      avoid == free \cup {n \in NodeIds(w) : \E r \in free : <<r, n>> \in R}
  IN Reachable(w, c) \ avoid

\* condition node c has run and its result does not indicate continue = true
NotContinuing(c) ==
  /\ workflow.types[c] = "condition"
  /\ pc[c] = "done"
  /\ ~ShouldContinueExecution(data[c])

\* the number of failed attempts of n that were retried (its warn entries)
RetriedFailures(n) ==
  Cardinality({i \in DOMAIN logs[n] : logs[n][i] = LogEntry("warn", "retrying")})

\* no node has run: no call of executeNodeWithRetry or of a capability, no
\* result in the data map, no metrics entry
NothingExecuted ==
  \A n \in Ids : entered[n] = 0 /\ invoked[n] = 0 /\ data[n] = None /\ metrics[n] = None

\* ===================================================================== claims
ExecutedStatuses == {Metrics(st, r) : st \in {"success", "failed"}, r \in 0..MaxRetries}

\* C1: for an acyclic graph whose edges all reference existing nodes, when
\* executeWorkflow has returned normally every node is in exactly one of the
\* executed set (with metrics status success or failed) and the skipped set,
\* and executeNodeWithRetry was entered once for an executed node and never
\* for a skipped one.
C1_ExactlyOnce ==
  (phase = "returned" /\ WellFormed(workflow)) =>
    \A n \in NodeIds(workflow) :
      /\ (n \in executedNodes) # (n \in skippedNodes)
      /\ n \in executedNodes => (metrics[n] \in ExecutedStatuses /\ entered[n] = 1)
      /\ n \in skippedNodes => entered[n] = 0

C1_Witness ==
  /\ phase = "returned"
  /\ WellFormed(workflow)
  /\ \E a, b, c \in NodeIds(workflow) :
       /\ a \in executedNodes /\ metrics[a].status = "success"
       /\ b \in executedNodes /\ metrics[b].status = "failed"
       /\ c \in skippedNodes

\* C2: in the diamond, a node with several direct predecessors enters
\* executeNodeWithRetry at most once, only after every direct predecessor has
\* settled (its callback is through), and exactly once in a run that returns
\* without pruning it.
C2_DiamondMerge ==
  \A n \in NodeIds(workflow) :
    Cardinality(Preds(workflow, n)) >= 2 =>
      /\ entered[n] <= 1
      /\ entered[n] >= 1 =>
           \A p \in Preds(workflow, n) : p \in executedNodes /\ pc[p] = "done"
      /\ phase = "returned" => (entered[n] = 1 <=> n \notin skippedNodes)

C2_Witness ==
  /\ workflow.edges = DiamondEdges
  /\ pc[4] = "running"
  /\ entered[4] = 1
  /\ {2, 3} \subseteq executedNodes

\* C3: a node launched in a later level is never launched before every node
\* launched in an earlier level has settled (its callback is through, after
\* success or a tolerated failure).
C3_LevelBarrier ==
  \A n \in NodeIds(workflow), m \in NodeIds(workflow) :
    (levelOf[m] >= 1 /\ levelOf[n] > levelOf[m]) => pc[m] = "done"

C3_Witness ==
  \E n \in NodeIds(workflow), m \in NodeIds(workflow) :
    /\ levelOf[m] = 1 /\ levelOf[n] = 2
    /\ pc[n] = "running"
    /\ metrics[m].status = "failed"

\* C4: executeWorkflow on a graph that contains a directed cycle (a self-loop
\* included) fails with the cycle error before any node is executed.
\* (The statement of the claim; the code violates it.)
C4_CycleRejected ==
  (HasCycle(workflow) /\ phase # "start") => (CycleError /\ NothingExecuted)

\* C4 on the graphs whose edges all reference existing nodes, where it holds
C4_ValidEdgesCycleRejected ==
  (HasCycle(workflow) /\ ValidEdges(workflow) /\ phase # "start")
    => (CycleError /\ NothingExecuted)

\* C5 as stated: the node list of the cycle error is exactly the set of nodes
\* that lie on a cycle.
C5_ExactlyCyclicSet ==
  (CycleError /\ HasCycle(workflow)) => Range(error.nodes) = OnCycle(workflow)

\* C5 as amended: the node list of the cycle error names every node that lies
\* on a cycle; a named node that is on no cycle is reachable from a cycle or
\* from an edge whose source is no node of the graph.
C5_CycleSetNamed ==
  CycleError =>
    /\ OnCycle(workflow) \subseteq Range(error.nodes)
    /\ Range(error.nodes) \subseteq
         CycleOrDownstream(workflow) \cup DanglingDownstream(workflow)

C5_Witness ==
  /\ CycleError
  /\ ValidEdges(workflow)
  /\ Cardinality(OnCycle(workflow)) = MaxNodes - 1
  /\ Range(error.nodes) = NodeIds(workflow)

\* C6: the ids named by the cycle error are exactly the nodes on a cycle or
\* reachable from one, and an acyclic graph whose edges all reference
\* existing nodes never raises it.  (The statement of the claim; the code
\* violates its first half on a graph with a dangling edge.)
C6_NamedExactly ==
  /\ CycleError => Range(error.nodes) = CycleOrDownstream(workflow)
  /\ (WellFormed(workflow) /\ phase # "start") => ~CycleError

\* C6 on the graphs whose edges all reference existing nodes, where it holds
C6_ValidEdgesNamedExactly ==
  ValidEdges(workflow) =>
    /\ CycleError => Range(error.nodes) = CycleOrDownstream(workflow)
    /\ (~HasCycle(workflow) /\ phase # "start") => ~CycleError

\* C7: when a condition node's result does not indicate continue = true,
\* every node reachable from it only through it is skipped and its capability
\* is never invoked; when the run returns, every node that is downstream of no
\* such condition has been executed.
C7_BranchPruning ==
  /\ \A c \in NodeIds(workflow) :
       NotContinuing(c) =>
         \A n \in OnlyThrough(workflow, c) :
           n \in skippedNodes /\ invoked[n] = 0 /\ metrics[n] = SkippedMetrics
  /\ phase = "returned" =>
       \A n \in NodeIds(workflow) :
         (\A c \in NodeIds(workflow) : NotContinuing(c) => n \notin Reachable(workflow, c))
           => (n \in executedNodes /\ invoked[n] >= 1)

\* C7 restricted to acyclic graphs whose edges all reference existing nodes
C7_WellFormedBranchPruning == WellFormed(workflow) => C7_BranchPruning

\* C8: when a condition node's result does not indicate continue = true,
\* every node of its transitive closure is skipped and never executed, also a
\* node that has another predecessor that executed successfully.
C8_FullClosureSkipped ==
  \A c \in NodeIds(workflow) :
    NotContinuing(c) =>
      \A n \in Reachable(workflow, c) :
        /\ n \in skippedNodes
        /\ n \notin executedNodes
        /\ entered[n] = 0 /\ invoked[n] = 0 /\ data[n] = None

C8_Witness ==
  /\ WellFormed(workflow)
  /\ phase = "returned"
  /\ \E c \in NodeIds(workflow), n \in NodeIds(workflow), p \in NodeIds(workflow) :
       /\ NotContinuing(c)
       /\ n \in Reachable(workflow, c)
       /\ p \in Preds(workflow, n) /\ p # c /\ p \notin Reachable(workflow, c)
       /\ p \in executedNodes /\ metrics[p].status = "success"
       /\ n \in skippedNodes

\* C9: a node whose capability failed on its first k attempts (k <= maxRetries)
\* and returned a result on attempt k+1 has metrics status success with
\* retries = k, its capability was invoked k+1 times, and the data map holds
\* the result of that last attempt.
C9_RetrySuccess ==
  \A n \in NodeIds(workflow) :
    (pc[n] \in {"returned", "done"} /\ data[n].kind = "value") =>
      LET k == RetriedFailures(n)
      IN /\ k <= MaxRetriesOf(options)
         /\ metrics[n] = Metrics("success", k)
         /\ invoked[n] = k + 1
         /\ data[n].attempt = k
         /\ pc[n] = "returned" => data[n] = SafeSerialize(nodeResult[n])

C9_Witness ==
  \E n \in NodeIds(workflow) :
    /\ pc[n] = "done"
    /\ MaxRetriesOf(options) = MaxRetries
    /\ RetriedFailures(n) = MaxRetries
    /\ metrics[n] = Metrics("success", MaxRetries)
    /\ invoked[n] = MaxRetries + 1

PathKeys == {"error", "skipped", "text"}

\* the paths below a node's key, up to two names deep
SubPaths == {<<>>} \cup {<<k>> : k \in PathKeys} \cup {<<k, l>> : k, l \in PathKeys}

\* n is not a condition, continueOnError is set, and n has failed on all its
\* attempts
ToleratedFailure(n) ==
  /\ options.continueOnError
  /\ workflow.types[n] # "condition"
  /\ metrics[n] # None /\ metrics[n].status = "failed"

\* the direct successors of n
Succs(w, n) == {p[2] : p \in {q \in NodeEdgeRel(w) : q[1] = n}}

\* C11: under continueOnError a non-condition node that has failed on all its
\* attempts has the sentinel {error, skipped: true} in the data map and
\* metrics status failed; the run is not rejected, and when it has returned
\* every successor of the node whose predecessors have all executed has been
\* executed, unless a condition pruned it; resolving ${node.path} against the
\* sentinel yields a string and does not throw.
C11_ToleratedFailure ==
  \A n \in NodeIds(workflow) :
    ToleratedFailure(n) =>
      /\ data[n] \in {Sentinel(Failure(n, MaxRetriesOf(options), c)) : c \in FailureCauses}
      /\ invoked[n] = MaxRetriesOf(options) + 1
      /\ pc[n] \in {"returned", "done"}
      /\ phase # "rejected" /\ error = None
      /\ phase = "returned" =>
           \A s \in Succs(workflow, n) :
             \/ s \in executedNodes /\ entered[s] = 1
             \/ \E c \in NodeIds(workflow) :
                  NotContinuing(c) /\ s \in GetDownstreamNodes(c, adjacency)
             \/ ~(Preds(workflow, s) \subseteq executedNodes)
      /\ LET contextData == ContextData(data)
         IN \A path \in SubPaths :
              LET r == ResolveVariable(<<KeyOf(n)>> \o path, contextData)
              IN r.t = "string" /\ r.s # "undefined"

C11_Witness ==
  /\ phase = "returned"
  /\ \E n \in NodeIds(workflow), s \in NodeIds(workflow) :
       /\ ToleratedFailure(n)
       /\ data[n].error.cause = "timeout"
       /\ s \in Succs(workflow, n)
       /\ s \in executedNodes /\ metrics[s].status = "success"
       /\ ResolveVariable(<<KeyOf(n), "error">>, ContextData(data)) = JsString("timeout")
       /\ ResolveVariable(<<KeyOf(n), "text", "text">>, ContextData(data)) = JsString("")

\* executeWorkflow has returned or rejected
Settled == phase \in {"returned", "rejected"}

C13_UnregisteredAbortsFirst ==
  ((\E n \in NodeIds(workflow) : ~HasExecutor(workflow, n)) /\ phase # "start")
    => (phase = "rejected" /\ NothingExecuted)

\* C14: a node whose type tag has no registered capability is fatal also
\* under continueOnError: once its attempts are over it has thrown the error
\* naming its type, and the data map never holds a sentinel for it.
\* (The statement of the claim; the code violates it.)
C14_UnregisteredFatal ==
  \A n \in NodeIds(workflow) :
    (~HasExecutor(workflow, n) /\ entered[n] >= 1) =>
      /\ data[n] = None
      /\ pc[n] \in {"returned", "done", "thrown"} =>
           (pc[n] = "thrown" /\ nodeResult[n].kind = "error"
              /\ nodeResult[n].cause = "noexecutor")

\* C14 without continueOnError, where it holds
C14_UnregisteredFatalByDefault == ~options.continueOnError => C14_UnregisteredFatal

\* one attempt of n has succeeded: its 'Node executed successfully' entry
Succeeded(n) ==
  \E i \in DOMAIN logs[n] : logs[n][i] = LogEntry("info", "success")

\* C15: every node for which executeNodeWithRetry has finished has a metrics
\* entry, with status success exactly when one attempt succeeded and failed
\* otherwise; when the run has returned normally every node of the graph has
\* a metrics entry with status success, failed or skipped.
\* (The statement of the claim; the code violates its second half.)
C15_MetricsComplete ==
  /\ \A n \in NodeIds(workflow) :
       pc[n] \in {"returned", "done", "thrown"} =>
         /\ metrics[n] # None
         /\ metrics[n].status = (IF Succeeded(n) THEN "success" ELSE "failed")
  /\ phase = "returned" =>
       \A n \in NodeIds(workflow) :
         metrics[n] # None /\ metrics[n].status \in {"success", "failed", "skipped"}

\* C15 on acyclic graphs whose edges all reference existing nodes
C15_WellFormedMetricsComplete == WellFormed(workflow) => C15_MetricsComplete

\* the log holds an error-level entry carrying the id n
HasErrorEntry(n) == \E i \in DOMAIN logs[n] : logs[n][i].level = "error"

\* the closing 'system' error entry has been appended
Closed == HasErrorEntry(System)

\* C16: every node that has failed on all its attempts, tolerated or fatal,
\* has an error-level entry with its id in the log, and no such entry is
\* appended once the closing 'system' error entry is in the log.
\* (The statement of the claim; the code violates its second half.)
C16_FailuresLogged ==
  /\ [](\A n \in NodeIds(workflow) :
          (metrics[n] # None /\ metrics[n].status = "failed") => HasErrorEntry(n))
  /\ [][\A n \in NodeIds(workflow) :
          (~HasErrorEntry(n) /\ HasErrorEntry(n)') => ~Closed]_vars

\* C16 for the failure that makes executeWorkflow reject
C16_AbortingFailureLogged ==
  (Closed /\ error.kind = "error") => HasErrorEntry(error.node)

IsPrefix(s, t) == Len(s) <= Len(t) /\ SubSeq(t, 1, Len(s)) = s

OwnResult(n) ==
  /\ data[n] # None
  /\ data[n].kind \in {"value", "sentinel"}
  /\ data[n].kind = "value" => data[n].attempt = attempt[n] /\ ~data[n].fn
  /\ data[n].kind = "sentinel" => data[n].error = Failure(n, attempt[n], data[n].error.cause)

\* node n ends an attempt in this step
EndsAttempt(n) == pc[n] = "running" /\ pc'[n] # "running"

\* C18: whatever the order in which the nodes of a level complete, once the
\* level has settled the data map holds the own result of each executed node
\* of the level; an entry of the data map, once stored, is never changed, and
\* the data, the metrics and the log entries of a node change only in steps of
\* that node.
C18_NoLostWrites ==
  /\ []((phase = "running" /\ LevelSettled) =>
          \A n \in Range(currentLevel) \cap executedNodes : OwnResult(n))
  /\ [][\A n \in Ids :
          /\ data'[n] # data[n] => (data[n] = None /\ EndsAttempt(n))
          /\ (metrics[n] # None /\ metrics'[n] # metrics[n]) => EndsAttempt(n)
          /\ logs'[n] # logs[n] => (pc'[n] # pc[n] /\ IsPrefix(logs[n], logs'[n]))]_vars

\* a level of two executed nodes has settled, the node first in the level
\* having completed last (after a retry), and both results are in the data map
C18_Witness ==
  /\ phase = "running" /\ LevelSettled
  /\ Len(currentLevel) >= 2
  /\ {currentLevel[1], currentLevel[2]} \subseteq executedNodes
  /\ attempt[currentLevel[1]] = 1 /\ attempt[currentLevel[2]] = 0
  /\ OwnResult(currentLevel[1]) /\ OwnResult(currentLevel[2])
  /\ data[currentLevel[1]].kind = "value"

\* C19: the delay after failed attempt number i (0-based) with attempts
\* remaining is backoffMs * (i + 1), for every configured backoffMs >= 0.
\* (The statement of the claim; the code violates it for backoffMs = 0.)
C19_BackoffExact ==
  \A n \in NodeIds(workflow) : \A k \in DOMAIN delayed[n] :
    delayed[n][k] = options.retryPolicy.backoffMs * k

\* C19 for every configured backoffMs > 0
C19_PositiveBackoffExact ==
  options.retryPolicy.backoffMs > 0 => C19_BackoffExact

\* what the code waits with backoffMs = 0
C19_ZeroBackoffWaitsDefault ==
  options.retryPolicy.backoffMs = 0 =>
    \A n \in NodeIds(workflow) : \A k \in DOMAIN delayed[n] :
      delayed[n][k] = DefaultBackoffMs * k

\* a second retry has been waited for
C19_SecondDelay == \E n \in NodeIds(workflow) : Len(delayed[n]) = 2

InProgress(c) == calls[c].pc = "running"

\* C20: two calls in progress at the same time have not written to the same
\* data map nor to the same log, whatever objects they were given.
\* (The statement of the claim; the code violates it for the data map of two
\* calls given the same object.)
C20_RunsExclusive ==
  \A c1, c2 \in Calls :
    (c1 # c2 /\ InProgress(c1) /\ InProgress(c2)) =>
      /\ calls[c1].wrote \cap calls[c2].wrote = {}
      /\ calls[c1].pushed \cap calls[c2].pushed = {}

\* C20 for the logs: calls never share a log array
C20_LogsExclusive ==
  \A c1, c2 \in Calls :
    (c1 # c2 /\ calls[c1].pc # "idle" /\ calls[c2].pc # "idle") =>
      /\ calls[c1].logs # calls[c2].logs
      /\ \A i \in DOMAIN logArrays[calls[c1].logs] :
           logArrays[calls[c1].logs][i][1] = c1

\* two calls in progress with both having stored results
C20_BothWrote ==
  \E c1, c2 \in Calls :
    /\ c1 # c2 /\ InProgress(c1) /\ InProgress(c2)
    /\ calls[c1].stored # {} /\ calls[c2].stored # {}

\* the value found by walking the path through the data: undefined when a
\* name of the path is no property of the value reached
RECURSIVE Walk(_, _)
Walk(obj, path) ==
  IF path = <<>> THEN obj
  ELSE IF obj.t = "object" /\ Head(path) \in DOMAIN obj.fields
       THEN Walk(obj.fields[Head(path)], Tail(path))
       ELSE JsUndefined

\* the template with every reference, from position i on, replaced by the
\* value its path leads to, or by the empty string when it leads nowhere
RECURSIVE Resolved(_, _, _)
Resolved(template, i, contextData) ==
  LET m == NextMatch(template, i)
      value == Walk(contextData, Split(SubSeq(template, m.start + 2, m.end - 1)))
  IN IF m = NoMatch THEN SubSeq(template, i, Len(template))
     ELSE SubSeq(template, i, m.start - 1)
            \o (IF value = JsUndefined THEN "" ELSE ToStr(value))
            \o Resolved(template, m.end + 1, contextData)

\* every reference of the template leads to a scalar or nowhere
ScalarReferences(template, contextData) ==
  LET refs == MatchAll(template, 1)
  IN \A k \in DOMAIN refs :
       Walk(contextData, Split(VarName(refs[k]))).t # "object"

\* C21: replaceVariables returns the template with every ${dotted.path}
\* replaced by the value found by walking the path through the data, and by
\* the empty string when the path does not resolve; the text outside the
\* references is unchanged.
\* (The statement of the claim; the code violates it.)
C21_Resolution ==
  (utilResult # None /\ ScalarReferences(utilCall.template, utilCall.contextData)) =>
    utilResult.s = Resolved(utilCall.template, 1, utilCall.contextData)

\* strings that are not empty and hold no "$"
PlainString(v) == v.t = "string" /\ v.s # "" /\ IndexOf(v.s, "$") = 0

\* C21 for references that lead to plain strings or nowhere
C21_PlainResolution ==
  (/\ utilResult # None
   /\ utilCall.fn = "replaceVariables"
   /\ LET refs == MatchAll(utilCall.template, 1)
      IN \A k \in DOMAIN refs :
           LET v == Walk(utilCall.contextData, Split(VarName(refs[k])))
           IN v = JsUndefined \/ PlainString(v)) =>
    utilResult.s = Resolved(utilCall.template, 1, utilCall.contextData)

\* the example of the specification: "Title: ${a.b}" with a.b = "Hi"
C21_Example ==
  (/\ utilResult # None
   /\ utilCall.template = "Title: ${a.b}"
   /\ Walk(utilCall.contextData, <<"a", "b">>) = JsString("Hi")) =>
    utilResult.s = "Title: Hi"

\* C21 for a reference to the boolean false, which replaceVariables replaces
\* by the empty string
C21_FalseRendered ==
  (/\ utilResult # None
   /\ utilCall.fn = "replaceVariables"
   /\ utilCall.template = "Title: ${a}"
   /\ Walk(utilCall.contextData, <<"a">>) = JsBoolean(FALSE)) =>
    utilResult.s = "Title: false"

\* the template with every reference, from position i on, replaced by the
\* rendering of the value its path leads to: an object pretty-printed
RECURSIVE Rendered(_, _, _)
Rendered(template, i, contextData) ==
  LET m == NextMatch(template, i)
      value == Walk(contextData, Split(SubSeq(template, m.start + 2, m.end - 1)))
  IN IF m = NoMatch THEN SubSeq(template, i, Len(template))
     ELSE SubSeq(template, i, m.start - 1)
            \o (IF value = JsUndefined THEN ""
                ELSE IF value.t = "object" THEN Stringify(value, 0)
                ELSE ToStr(value))
            \o Rendered(template, m.end + 1, contextData)

\* the references are ${dotted.path}: no "$" and no "{" in the path; some
\* reference leads to an object, the others to an object, to a plain string
\* or nowhere
ObjectReferences(template, contextData) ==
  LET refs == MatchAll(template, 1)
      Value(k) == Walk(contextData, Split(VarName(refs[k])))
  IN /\ \A k \in DOMAIN refs :
          IndexOf(VarName(refs[k]), "$") = 0 /\ IndexOf(VarName(refs[k]), "{") = 0
     /\ \E k \in DOMAIN refs : Value(k).t = "object"
     /\ \A k \in DOMAIN refs :
          Value(k).t \in {"object", "undefined"} \/ PlainString(Value(k))

\* C22: a reference that leads to an object is rendered as the pretty-printed
\* representation of the object.
\* (The statement of the claim; replaceVariables violates it.)
C22_PrettyPrinted ==
  (utilResult # None /\ ObjectReferences(utilCall.template, utilCall.contextData)) =>
    utilResult.s = Rendered(utilCall.template, 1, utilCall.contextData)

\* no string of the value holds a "$"
RECURSIVE DollarFree(_)
DollarFree(v) ==
  IF v.t = "string" THEN IndexOf(v.s, "$") = 0
  ELSE IF v.t = "object" THEN \A k \in DOMAIN v.fields : DollarFree(v.fields[k])
  ELSE TRUE

\* C22 for the replacement done by OllamaNodeExecutor.execute, on data whose
\* strings hold no "$"
C22_OllamaPrettyPrinted ==
  (utilResult # None /\ utilCall.fn = "ollama"
     /\ DollarFree(utilCall.contextData)
     /\ ObjectReferences(utilCall.template, utilCall.contextData)) =>
    utilResult.s = Rendered(utilCall.template, 1, utilCall.contextData)

\* what replaceVariables puts in the place of a reference to an object
C22_ObjectObject ==
  (utilResult # None /\ utilCall.fn = "replaceVariables"
     /\ utilCall.template = "${a}"
     /\ Walk(utilCall.contextData, <<"a">>).t = "object") =>
    utilResult.s = "[object Object]"

\* the prompt for "${a}" with a = {b: "Hi"}
C22_OllamaExample ==
  (utilResult # None /\ utilCall.fn = "ollama"
     /\ utilCall.template = "${a}"
     /\ Walk(utilCall.contextData, <<"a">>) = JsObject([k \in {"b"} |-> JsString("Hi")])) =>
    utilResult.s = "{\n  \"b\": \"Hi\"\n}"

\* C23: a node in skippedNodes has never entered executeNodeWithRetry, its
\* capability has never been invoked, the data map holds nothing for it, it
\* is in no level, and its metrics entry is the skipped one (duration 0,
\* retries 0); and no node ever leaves skippedNodes.
C23_SkippedNeverExecuted ==
  /\ [](\A n \in skippedNodes \cap NodeIds(workflow) :
          /\ entered[n] = 0 /\ invoked[n] = 0 /\ pc[n] = "idle"
          /\ data[n] = None
          /\ n \notin Range(currentLevel) /\ levelOf[n] = 0
          /\ metrics[n] = SkippedMetrics)
  /\ [][skippedNodes \subseteq skippedNodes']_vars

\* the run has returned with a skipped node of which another predecessor, an
\* action, has executed with success
C23_Witness ==
  /\ phase = "returned"
  /\ \E n \in skippedNodes \cap NodeIds(workflow) :
       \E q \in Preds(workflow, n) \cap executedNodes :
         workflow.types[q] = "action" /\ metrics[q].status = "success"

\* the number of edges that target n
InEdges(w, n) == Cardinality({i \in DOMAIN w.edges : w.edges[i].target = n})

Max(S) == CHOOSE x \in S : \A y \in S : y <= x

\* the first level is the set of the nodes without incoming edge
FirstLevelRoots ==
  levelNo >= 1 =>
    \A n \in NodeIds(workflow) : (levelOf[n] = 1) <=> (InEdges(workflow, n) = 0)

\* a node launched after the first level is launched in the level after the
\* one of its predecessor launched last, all its predecessors having executed
LaunchedAfterLastPredecessor ==
  \A n \in NodeIds(workflow) :
    levelOf[n] > 1 =>
      /\ Preds(workflow, n) \subseteq executedNodes
      /\ levelOf[n] = 1 + Max({levelOf[q] : q \in Preds(workflow, n)})

\* C24: the first level is exactly the set of nodes with in-degree 0, and in a
\* run that returns every node that is not skipped has been launched, in the
\* level after the one in which the last of its predecessors settled.
\* (The statement of the claim; the code violates it on graphs with an edge
\* from or to an id that is no node.)
C24_Levels ==
  /\ FirstLevelRoots
  /\ LaunchedAfterLastPredecessor
  /\ phase = "returned" =>
       \A n \in NodeIds(workflow) \ skippedNodes : levelOf[n] >= 1

\* C24 without the requirement that every node is launched
C24_LaunchLevels == FirstLevelRoots /\ LaunchedAfterLastPredecessor

\* C24 on graphs whose edges all join nodes of the graph
C24_WellFormedLevels == ValidEdges(workflow) => C24_Levels

\* the targets of the edges that leave n, in edge order
RECURSIVE OutTargets(_, _, _)
OutTargets(w, n, i) ==
  IF i > Len(w.edges) THEN <<>>
  ELSE (IF w.edges[i].source = n THEN <<w.edges[i].target>> ELSE <<>>)
         \o OutTargets(w, n, i + 1)

\* C25: buildDependencyGraph gives every node of the graph an in-degree equal
\* to the number of edges that target it, parallel edges counted each, and an
\* adjacency list holding the targets of its outgoing edges in edge order;
\* these are what executeTopologically starts from; the graph is not modified.
C25_DependencyGraph ==
  /\ [](LET g == BuildDependencyGraph(workflow)
        IN \A n \in NodeIds(workflow) :
             /\ n \in Range(g.inDegree.keys)
             /\ g.inDegree.val[n] = InEdges(workflow, n)
             /\ g.adjacency[n] = OutTargets(workflow, n, 1)
             /\ (phase = "running" /\ levelNo = 1 /\ executedNodes = {}) =>
                  /\ workingInDegree[n] = InEdges(workflow, n)
                  /\ adjacency[n] = OutTargets(workflow, n, 1))
  /\ [][workflow' = workflow]_vars

\* a graph with two parallel edges has been accepted and its first level
\* started
C25_Witness ==
  /\ phase = "running"
  /\ \E i, j \in DOMAIN workflow.edges :
       /\ i < j /\ workflow.edges[i] = workflow.edges[j]
       /\ workingInDegree[workflow.edges[i].target] = 2
       /\ Len(adjacency[workflow.edges[i].source]) >= 2

\* C26: a graph with an edge whose source or target is no node of the graph
\* is rejected by executeWorkflow before any node executes.
\* (The statement of the claim; the code violates it.)
C26_DanglingEdgeRejected ==
  (~ValidEdges(workflow) /\ phase # "start") =>
    (phase = "rejected" /\ NothingExecuted)

\* the only error such a graph is ever rejected with is the cycle error
C26_RejectedAsCycle ==
  (~ValidEdges(workflow) /\ phase = "rejected" /\ NothingExecuted) => CycleError

\* a graph whose only edge leads to an id that is no node is rejected, with a
\* cycle error that names no node
C26_LoneDanglingTarget ==
  (/\ Len(workflow.edges) = 1
   /\ workflow.edges[1].source \in NodeIds(workflow)
   /\ workflow.edges[1].target \notin NodeIds(workflow)
   /\ phase # "start") =>
    (CycleError /\ error.nodes = <<>> /\ NothingExecuted)

\* the data supplied to a condition node: its inputs when it has any, else
\* the data of the run
SuppliedData(call) ==
  IF call.nodeData.inputs # JsUndefined THEN call.nodeData.inputs ELSE call.contextData

\* C27: the condition executor returns result = true for the expression
\* "true", false for "false", otherwise the truthiness of the supplied data,
\* and continue equal to result.
\* (The statement of the claim; the code violates it for inputs that are
\* falsy.)
C27_ConditionResult ==
  utilResult # None =>
    /\ utilResult.continue = utilResult.result
    /\ utilResult.result =
         JsBoolean(IF utilCall.nodeData.config.condition = JsString("true") THEN TRUE
                   ELSE IF utilCall.nodeData.config.condition = JsString("false") THEN FALSE
                   ELSE Truthy(SuppliedData(utilCall)))

\* C27 for nodes without inputs or with truthy inputs
C27_TruthyInputsResult ==
  (utilCall # None /\ (utilCall.nodeData.inputs = JsUndefined \/ Truthy(utilCall.nodeData.inputs)))
    => C27_ConditionResult

\* result is false only for the expression "false"
C27_FalseOnlyByLiteral ==
  (utilResult # None /\ utilResult.result = JsBoolean(FALSE)) =>
    utilCall.nodeData.config.condition = JsString("false")

\* condition node c has failed on all its attempts under continueOnError
FailedCondition(c) ==
  /\ options.continueOnError
  /\ workflow.types[c] = "condition"
  /\ data[c] # None /\ data[c].kind = "sentinel"

\* C28: a condition node that fails on all its attempts under continueOnError
\* does not continue: once its callback has resumed every node downstream of
\* it is skipped and never executed, and the run is not rejected.
C28_FailedConditionPrunes ==
  \A c \in NodeIds(workflow) :
    FailedCondition(c) =>
      /\ phase # "rejected" /\ error = None
      /\ pc[c] = "done" =>
           \A n \in Reachable(workflow, c) :
             /\ n \in skippedNodes /\ n \notin executedNodes
             /\ entered[n] = 0 /\ invoked[n] = 0 /\ data[n] = None
             /\ metrics[n] = SkippedMetrics

C28_Witness ==
  /\ WellFormed(workflow)
  /\ phase = "returned"
  /\ \E c \in NodeIds(workflow) :
       /\ FailedCondition(c)
       /\ metrics[c].status = "failed"
       /\ Reachable(workflow, c) # {}
       /\ Reachable(workflow, c) \subseteq skippedNodes

\* a step that leaves the data map and the log of the run as they are
NoWrite == UNCHANGED <<data, logs>>

\* executeWorkflow has returned or rejected
Ended == phase \in {"returned", "rejected"}

\* C29: once executeWorkflow has returned or rejected, no step writes to the
\* run's data map or log; after a fail-fast abort the nodes of the failing
\* node's level that are still in flight store no result and append no entry.
\* (The statement of the claim; the code violates it after a rejection.)
C29_NoWriteAfterEnd ==
  [][Ended => NoWrite]_vars

\* C29 for runs that have returned: no callback is pending then
C29_NoWriteAfterReturn ==
  [][phase = "returned" => NoWrite]_vars

\* a returned run has no attempt in flight
C29_ReturnedQuiescent ==
  phase = "returned" => \A n \in Ids : pc[n] \in {"idle", "done"}

\* a capability call of node n settles in this step, after its attempt has
\* timed out
SettlesLate(n) == lateCalls'[n].settled # lateCalls[n].settled

C30_LastAttemptKept ==
  \A n \in NodeIds(workflow) :
    (lateCalls[n].settled # {} /\ data[n] # None /\ data[n].kind = "value")
      => /\ data[n].attempt \notin lateCalls[n].settled
         /\ metrics[n] = Metrics("success", data[n].attempt)

FailedOnReturn(n) ==
  \/ data[n] # None /\ data[n].kind = "sentinel" /\ data[n].error.cause = "serialize"
  \/ nodeResult[n] # None /\ nodeResult[n].kind = "error" /\ nodeResult[n].cause = "serialize"

\* C31: an attempt whose capability returns normally before the timeout
\* counts as a success whatever the value returned, undefined included: no
\* node ends as failed, and no run is rejected, on account of such an attempt.
\* (The statement of the claim; the code violates it for undefined.)
C31_ReturnIsSuccess ==
  /\ \A n \in NodeIds(workflow) : ~FailedOnReturn(n)
  /\ (error # None /\ error.kind = "error") => error.cause # "serialize"

\* C31 for the values JSON can represent: what a successful node has stored
\* is the value of its last attempt, serialised
C31_DefinedReturnStored ==
  \A n \in NodeIds(workflow) :
    (metrics[n] # None /\ metrics[n].status = "success") =>
      /\ data[n] # None /\ data[n].kind = "value" /\ ~data[n].fn
      /\ data[n].attempt = metrics[n].retries

\* a node has failed on its only attempt although its capability returned
C31_UndefinedFails ==
  \E n \in NodeIds(workflow) :
    /\ FailedOnReturn(n)
    /\ metrics[n] = Metrics("failed", 0)
    /\ invoked[n] = 1 /\ delayed[n] = <<>>

\* executeNodeWithRetry has been called for n
Started(n) == entered[n] > 0

\* n has a metrics entry written by executeNodeWithRetry
HasRunMetrics(n) == metrics[n] # None /\ metrics[n].status \in {"success", "failed"}

\* C32: the executed set and the skipped set are disjoint in every reachable
\* state; pruning never marks as skipped a node that has executed or is
\* executing, and never overwrites the metrics entry of an executed node.
C32_ExecutedSkippedDisjoint ==
  /\ [](/\ executedNodes \cap skippedNodes = {}
        /\ \A n \in skippedNodes : ~Started(n) /\ pc[n] = "idle")
  /\ [][\A n \in Ids :
          /\ (n \in skippedNodes' /\ n \notin skippedNodes)
               => (~Started(n) /\ n \notin executedNodes)
          /\ HasRunMetrics(n) => metrics'[n] = metrics[n]]_vars

\* a condition has pruned while another node of its level, not downstream of
\* it, was executing, and that node has ended with its own metrics
C32_Witness ==
  /\ phase = "returned"
  /\ \E c \in NodeIds(workflow), n \in NodeIds(workflow) :
       /\ c # n
       /\ levelOf[c] = levelOf[n] /\ levelOf[c] > 0
       /\ NotContinuing(c)
       /\ skippedNodes # {}
       /\ n \in executedNodes /\ HasRunMetrics(n)
       /\ executedNodes \cap skippedNodes = {}

\* the run has ended and no callback of it is left in flight
Quiescent == Settled /\ \A n \in Ids : pc[n] \in {"idle", "done", "thrown"}

\* what the fixed outcomes of n make of it once it is launched
ScriptFails(n) == \A i \in DOMAIN outcomes[n] : outcomes[n][i] = Throws

ScriptContinues(n) ==
  \E i \in DOMAIN outcomes[n] :
    /\ outcomes[n][i] = Returns(TRUE)
    /\ \A j \in 1..(i - 1) : outcomes[n][j] = Throws

\* The sets a run ends with as a function of the graph, the options and the
\* outcomes alone, level after level: a node that fails for good without
\* continueOnError ends the run after its level and does not count as
\* executed; a condition that does not continue prunes what is downstream.
RECURSIVE Expected(_, _, _, _)
Expected(level, E, S, launched) ==
  IF level = {} THEN [executed |-> E, skipped |-> S, launched |-> launched]
  ELSE LET fatal == {n \in level : ScriptFails(n) /\ ~options.continueOnError}
           E2 == E \cup (level \ fatal)
           S2 == S \cup UNION {Reachable(workflow, c) :
                                 c \in {n \in level \ fatal :
                                          /\ workflow.types[n] = "condition"
                                          /\ ~ScriptContinues(n)}}
           next == {t \in NodeIds(workflow) \ (E2 \cup S2 \cup level) :
                      Preds(workflow, t) \subseteq E2}
       IN IF fatal # {}
          THEN [executed |-> E2, skipped |-> S2, launched |-> launched \cup level]
          ELSE Expected(next, E2, S2, launched \cup level)

ExpectedStatus(n, exp) ==
  IF n \in exp.skipped THEN "skipped"
  ELSE IF n \notin exp.launched THEN "none"
  ELSE IF ScriptFails(n) THEN "failed" ELSE "success"

StatusOf(n) == IF metrics[n] = None THEN "none" ELSE metrics[n].status

\* C33: for a fixed graph and fixed outcomes of the capabilities, the
\* executed set, the skipped set and the metrics status of every node at the
\* end are the same whatever the order in which the nodes of a level end:
\* they are the function Expected of the graph, the options and the outcomes.
C33_OrderIndependent ==
  Quiescent =>
    LET exp == Expected(Roots(workflow), {}, {}, {})
    IN /\ executedNodes = exp.executed
       /\ skippedNodes = exp.skipped
       /\ \A n \in NodeIds(workflow) : StatusOf(n) = ExpectedStatus(n, exp)

\* a level of two nodes, one of them a condition that pruned, whose callbacks
\* resumed in the one order or in the other: the condition first
C33_WitnessConditionFirst ==
  /\ phase = "running" /\ Range(currentLevel) = {2, 3}
  /\ workflow.types[2] = "condition" /\ ~ScriptContinues(2)
  /\ pc[2] = "done" /\ pc[3] = "running" /\ 4 \in skippedNodes

\* C33's witness: the other node of the level first, the condition pruning
\* after it, and the run at its end
C33_Witness ==
  /\ Quiescent
  /\ workflow.types[2] = "condition" /\ ~ScriptContinues(2)
  /\ levelOf[2] = levelOf[3] /\ levelOf[2] = 2
  /\ executedNodes = {1, 2, 3} /\ skippedNodes = {4}
  /\ Len(logs[3]) >= 2 /\ Len(logs[2]) >= 3

\* the entries of a node up to its attempt k: 'Executing node', then for each
\* failed attempt that was retried the warn entry and the next 'Executing node'
RECURSIVE AttemptEntries(_)
AttemptEntries(k) ==
  IF k = 0 THEN <<LogEntry("info", "executing")>>
  ELSE AttemptEntries(k - 1)
         \o <<LogEntry("warn", "retrying"), LogEntry("info", "executing_retry")>>

\* the one entry that ends the attempts of a node: the success info entry or
\* the error entry
FinalEntries ==
  {LogEntry("info", "success"), LogEntry("error", "failed"),
   LogEntry("error", "failed_continuing")}

\* executeNodeWithRetry has returned or thrown for n
NodeEnded(n) == pc[n] \in {"returned", "done", "thrown"}

\* on normal completion the 'system' entry 'Workflow execution completed' is
\* the last entry of the log
CompletedEntryLast ==
  /\ [](phase = "returned" => logs[System] = <<LogEntry("info", "completed")>>)
  /\ [][phase = "returned" => logs' = logs]_vars

\* C34: the entries with the id of an executed node are, in this order, one
\* 'Executing node' entry per attempt with a warn entry after each failed
\* attempt that is retried, then exactly one final entry, the success info
\* entry or the error entry; on normal completion the last entry of the log
\* is the 'system' entry 'Workflow execution completed'.
\* (The statement of the claim; a condition that prunes has one entry more.)
C34_LogShape ==
  /\ [](\A n \in NodeIds(workflow) :
          NodeEnded(n) =>
            \E k \in 0..MaxRetries, f \in FinalEntries :
              logs[n] = AttemptEntries(k) \o <<f>>)
  /\ CompletedEntryLast

\* the final entry that goes with the metrics of n
FinalEntryOf(n) ==
  IF metrics[n].status = "success" THEN LogEntry("info", "success")
  ELSE IF options.continueOnError THEN LogEntry("error", "failed_continuing")
  ELSE LogEntry("error", "failed")

\* C34 amended: after its final entry a condition node that does not continue
\* has one more entry, the info entry 'Condition not met, pruning downstream
\* nodes', written when its callback resumes; the number of attempts is the
\* one in the node's metrics.
C34_LogShapeWithPruning ==
  /\ [](\A n \in NodeIds(workflow) :
          NodeEnded(n) =>
            /\ metrics[n] # None /\ metrics[n].status \in {"success", "failed"}
            /\ logs[n] = AttemptEntries(metrics[n].retries) \o <<FinalEntryOf(n)>>
                           \o (IF NotContinuing(n)
                               THEN <<LogEntry("info", "pruning")>> ELSE <<>>))
  /\ CompletedEntryLast

\* a returned run with a condition that succeeded on its retry and pruned,
\* and a node that failed for good on its retry
C34_Witness ==
  /\ phase = "returned"
  /\ logs[System] = <<LogEntry("info", "completed")>>
  /\ \E c \in NodeIds(workflow) :
       /\ NotContinuing(c) /\ metrics[c] = Metrics("success", 1)
       /\ Len(logs[c]) = 5
  /\ \E n \in NodeIds(workflow) :
       /\ metrics[n] = Metrics("failed", 1)
       /\ logs[n] = AttemptEntries(1) \o <<LogEntry("error", "failed_continuing")>>

\* C35: every execution record saved with status 'running' has left that
\* status by the time the endpoint responds, whether the run completed or
\* failed.
\* (The statement of the claim; the code violates it when the run fails.)
C35_RecordClosed ==
  request.pc = "responded" =>
    \A i \in DOMAIN executions : executions[i].status # "running"

\* C35 for the requests answered with 200
C35_RecordClosedOnSuccess ==
  (request.pc = "responded" /\ request.status = Ok) =>
    /\ phase = "returned"
    /\ executions = <<[status |-> "completed", logs |-> TRUE]>>

\* the record of a run that rejected is never updated
C35_RecordLeftRunning ==
  (request.pc = "responded" /\ phase = "rejected") =>
    /\ request.status = ServerError
    /\ executions = <<[status |-> "running", logs |-> FALSE]>>

\* no id occurs twice in the level
NoRepeats(level) ==
  \A i \in DOMAIN level, j \in DOMAIN level : i # j => level[i] # level[j]

\* currentLevel is assigned a level in this step
NewLevel == currentLevel' # currentLevel /\ currentLevel' # <<>>

\* C36: throughout a run the working in-degree of every node stays >= 0, and
\* each node id appears in at most one level over the whole run: a level
\* holds no id twice, and no node that was in a level before.
C36_InDegreeAndLevels ==
  /\ [](/\ \A id \in Ids : workingInDegree[id] >= 0
        /\ NoRepeats(currentLevel)
        /\ \A n \in NodeIds(workflow) : entered[n] <= 1)
  /\ [][NewLevel =>
          \A n \in Range(currentLevel') \cap NodeIds(workflow) :
            /\ levelOf[n] = 0 /\ entered[n] = 0
            /\ levelOf'[n] = levelNo' /\ levelNo' = levelNo + 1]_vars

\* a node with two incoming edges joined the second level once its in-degree
\* had come down from 2 to 0, and the run has returned
C36_Witness ==
  /\ phase = "returned"
  /\ \E n \in NodeIds(workflow) :
       /\ Cardinality({i \in DOMAIN workflow.edges : workflow.edges[i].target = n}) = 2
       /\ levelOf[n] = 2
       /\ workingInDegree[n] = 0
       /\ entered[n] = 1

====
